---- MODULE Spec2Model ----
(***************************************************************************)
(* ArduinoScript translation pipeline: Lexer.tokenize (src/src/lexer.py),  *)
(* Parser.parse (src/src/parser.py) and CodeGenerator.generate             *)
(* (src/src/codegen.py), run in sequence as ArduinoScriptCompiler.compile  *)
(* does (src/src/compiler.py).                                             *)
(*                                                                         *)
(* Text is a sequence of characters.  An ASCII character is the one-       *)
(* character string holding it.  A Cyrillic letter is a two-character      *)
(* string: "c" (lower case) or "C" (upper case) followed by the code of    *)
(* the letter in the table                                                 *)
(*    a b v g d e j z i q k l m n o p r s t u f h c x w 5 7 y 6 3 8 9      *)
(* for the letters a, be, ve, ge, de, ie, zhe, ze, i, short i, ka, el, em, *)
(* en, o, pe, er, es, te, u, ef, ha, tse, che, sha, shcha, hard sign,      *)
(* yeru, soft sign, e, yu, ya of the alphabet, in this order.              *)
(***************************************************************************)
EXTENDS Integers, Sequences, FiniteSets, TLC

(***************************************************************************)
(* Characters and strings                                                  *)
(***************************************************************************)

\* the characters of an ASCII string literal
Chars(s) == [i \in 1..Len(s) |-> SubSeq(s, i, i)]

LatinLower == "abcdefghijklmnopqrstuvwxyz"
LatinUpper == "ABCDEFGHIJKLMNOPQRSTUVWXYZ"
CyrCodes   == "abvgdejziqklmnoprstufhcxw57y6389"
CyrCodesUp == "ABVGDEJZIQKLMNOPRSTUFHCXW57Y6389"
Digits     == "0123456789"

\* index of the one-character string ch in the ASCII string s, 0 if absent
IndexIn(s, ch) ==
    IF \E i \in 1..Len(s) : SubSeq(s, i, i) = ch
    THEN CHOOSE i \in 1..Len(s) : SubSeq(s, i, i) = ch
    ELSE 0

\* the Cyrillic character written by the one-character code c
CyrChar(c) ==
    IF IndexIn(CyrCodes, c) > 0 THEN "c" \o c
    ELSE IF IndexIn(CyrCodesUp, c) > 0
         THEN "C" \o SubSeq(CyrCodes, IndexIn(CyrCodesUp, c), IndexIn(CyrCodesUp, c))
    ELSE c

\* the characters of a text written in codes: letters and code digits stand
\* for Cyrillic letters, every other character for itself
Cyr(s) == [i \in 1..Len(s) |-> CyrChar(SubSeq(s, i, i))]

CharsOf(s) == {s[i] : i \in 1..Len(s)}

IsCyrLower(ch)    == Len(ch) = 2 /\ SubSeq(ch, 1, 1) = "c"
IsCyrUpper(ch)    == Len(ch) = 2 /\ SubSeq(ch, 1, 1) = "C"

\* the character classes of the lexical patterns
DigitSet    == CharsOf(Chars(Digits))
HexSet      == DigitSet \cup CharsOf(Chars("abcdefABCDEF"))
BinSet      == {"0", "1"}
BlankSet    == {" ", "\t"}
LatinSet    == CharsOf(Chars(LatinLower)) \cup CharsOf(Chars(LatinUpper))
CyrSet      == {"c" \o c : c \in CharsOf(Chars(CyrCodes))}
                 \cup {"C" \o c : c \in CharsOf(Chars(CyrCodes))}
IdStartSet  == LatinSet \cup CyrSet \cup {"_"}
IdPartSet   == IdStartSet \cup DigitSet

\* str.upper() and str.lower() on one character
UpperChar(ch) ==
    IF IndexIn(LatinLower, ch) > 0
    THEN SubSeq(LatinUpper, IndexIn(LatinLower, ch), IndexIn(LatinLower, ch))
    ELSE IF IsCyrLower(ch) THEN "C" \o SubSeq(ch, 2, 2)
    ELSE ch

LowerChar(ch) ==
    IF IndexIn(LatinUpper, ch) > 0
    THEN SubSeq(LatinLower, IndexIn(LatinUpper, ch), IndexIn(LatinUpper, ch))
    ELSE IF IsCyrUpper(ch) THEN "c" \o SubSeq(ch, 2, 2)
    ELSE ch

Upper(s) == [i \in 1..Len(s) |-> UpperChar(s[i])]
Lower(s) == [i \in 1..Len(s) |-> LowerChar(s[i])]

\* s[i-1:].startswith(lit), for a 1-based position i
StartsAt(s, i, lit) ==
    /\ i + Len(lit) - 1 <= Len(s)
    /\ \A k \in 1..Len(lit) : s[i + k - 1] = lit[k]

StartsWith(s, lit) == StartsAt(s, 1, lit)
EndsWith(s, lit)   == Len(lit) <= Len(s) /\ StartsAt(s, Len(s) - Len(lit) + 1, lit)

\* all characters of s at positions i.. that satisfy a class, greedily:
\* the number of leading characters from position i that are in the class
RunLen(s, i, cls) ==
    IF i > Len(s) THEN 0
    ELSE IF \A j \in i..Len(s) : s[j] \in cls THEN Len(s) - i + 1
    ELSE (CHOOSE j \in i..Len(s) : s[j] \notin cls /\ \A k \in i..(j - 1) : s[k] \in cls) - i

\* the least position j >= i at which lit occurs in s, 0 if there is none
FindFrom(s, i, lit) ==
    IF \E j \in i..Len(s) : StartsAt(s, j, lit)
    THEN CHOOSE j \in i..Len(s) :
            StartsAt(s, j, lit) /\ \A h \in i..(j - 1) : ~StartsAt(s, h, lit)
    ELSE 0

\* value.count(lit) for a one-character lit
Count(s, ch) == Cardinality({i \in 1..Len(s) : s[i] = ch})

(***************************************************************************)
(* Python values: int, float, str and None                                 *)
(***************************************************************************)

IntV(n)        == [k |-> "int", n |-> n, s |-> <<>>]
\* a float is kept as its integer part and its fraction digits
FloatV(n, fr)  == [k |-> "float", n |-> n, s |-> fr]
StrV(s)        == [k |-> "str", n |-> 0, s |-> s]
NoneV          == [k |-> "none", n |-> 0, s |-> <<>>]

IsStr(v)  == v.k = "str"
IsNone(v) == v.k = "none"

\* int(text) for a text of decimal digits
RECURSIVE ParseInt(_)
ParseInt(ds) ==
    IF ds = <<>> THEN 0
    ELSE 10 * ParseInt(SubSeq(ds, 1, Len(ds) - 1)) + (IndexIn(Digits, ds[Len(ds)]) - 1)

\* str(n) for an int n >= 0
RECURSIVE FormatInt(_)
FormatInt(n) ==
    IF n < 10 THEN <<SubSeq(Digits, n + 1, n + 1)>>
    ELSE FormatInt(n \div 10) \o <<SubSeq(Digits, (n % 10) + 1, (n % 10) + 1)>>

\* the fraction digits of float(text): trailing zeros dropped, one digit kept
RECURSIVE StripZeros(_)
StripZeros(ds) ==
    IF Len(ds) > 1 /\ ds[Len(ds)] = "0" THEN StripZeros(SubSeq(ds, 1, Len(ds) - 1))
    ELSE ds

\* str(v)
Str(v) ==
    CASE v.k = "int"   -> FormatInt(v.n)
      [] v.k = "float" -> FormatInt(v.n) \o <<".">> \o v.s
      [] v.k = "str"   -> v.s
      [] OTHER         -> Chars("None")

\* d.get(key, default)
get(d, key, default) == IF key \in DOMAIN d THEN d[key] ELSE default

\* the truth value of v (bool(v))
Truthy(v) ==
    CASE v.k = "int"   -> v.n /= 0
      [] v.k = "float" -> v.n /= 0 \/ v.s /= <<"0">>
      [] v.k = "str"   -> v.s /= <<>>
      [] OTHER         -> FALSE

(***************************************************************************)
(* keywords.py                                                             *)
(***************************************************************************)

KEYWORDS ==
    (Cyr("cikl") :> "LOOP") @@ (Cyr("funkci9") :> "FUNCTION") @@
    (Cyr("esli") :> "IF") @@ (Cyr("inaxe") :> "ELSE") @@
    (Cyr("inaxe_esli") :> "ELIF") @@ (Cyr("dl9") :> "FOR") @@
    (Cyr("poka") :> "WHILE") @@ (Cyr("prervat6") :> "BREAK") @@
    (Cyr("prodoljit6") :> "CONTINUE") @@ (Cyr("vernut6") :> "RETURN") @@
    (Cyr("konec") :> "END") @@
    (Cyr("celoe") :> "INT") @@ (Cyr("drobnoe") :> "FLOAT") @@
    (Cyr("bulevo") :> "BOOL") @@ (Cyr("simvol") :> "CHAR") @@
    (Cyr("stroka") :> "STRING") @@ (Cyr("massiv") :> "ARRAY") @@
    (Cyr("pusto") :> "VOID") @@
    (Cyr("istina") :> "TRUE") @@ (Cyr("loj6") :> "FALSE") @@
    (Cyr("vysoko") :> "HIGH") @@ (Cyr("nizko") :> "LOW") @@
    (Cyr("vkl8xeno") :> "ON") @@ (Cyr("vykl8xeno") :> "OFF") @@
    (Cyr("vhod") :> "INPUT") @@ (Cyr("vyhod") :> "OUTPUT") @@
    (Cyr("vhod_podt9jka") :> "INPUT_PULLUP") @@ (Cyr("analog") :> "ANALOG") @@
    (Cyr("wim") :> "PWM") @@
    (Cyr("pin") :> "PIN") @@ (Cyr("rejim") :> "PINMODE") @@
    (Cyr("cifrzapis6") :> "DIGITALWRITE") @@ (Cyr("cifrxtenie") :> "DIGITALREAD") @@
    (Cyr("analogzapis6") :> "ANALOGWRITE") @@ (Cyr("analogxtenie") :> "ANALOGREAD") @@
    (Cyr("jdat6") :> "DELAY") @@ (Cyr("millis") :> "MILLIS") @@
    (Cyr("mikros") :> "MICROS") @@ (Cyr("preryvanie") :> "ATTACHINTERRUPT") @@
    (Cyr("otkl8xit6_preryvanie") :> "DETACHINTERRUPT") @@ (Cyr("pauza") :> "PAUSE") @@
    (Cyr("sluxaqnoe") :> "RANDOM") @@
    (Cyr("posledovatel6nyq") :> "SERIAL") @@
    (Cyr("naxat6_posledovatel6nyq") :> "SERIAL_BEGIN") @@
    (Cyr("pexat6") :> "PRINT") @@ (Cyr("pexat6_stroka") :> "PRINTLN") @@
    (Cyr("dostupno") :> "AVAILABLE") @@ (Cyr("xitat6") :> "READ") @@
    (Cyr("naqti") :> "FIND") @@ (Cyr("naqti_do") :> "FIND_UNTIL") @@
    (Cyr("oxistit6") :> "FLUSH") @@
    (Cyr("pi") :> "PI") @@ (Cyr("maks") :> "MAX") @@ (Cyr("min") :> "MIN") @@
    (Cyr("ogranixit6") :> "CONSTRAIN") @@ (Cyr("otobrazit6") :> "MAP") @@
    (Cyr("stepen6") :> "POW") @@ (Cyr("kvadrat") :> "SQ") @@
    (Cyr("koren6") :> "SQRT") @@ (Cyr("absol8t") :> "ABS") @@
    (Cyr("sinus") :> "SIN") @@ (Cyr("kosinus") :> "COS") @@
    (Cyr("tangens") :> "TAN") @@ (Cyr("sluxaqnoe_sem9") :> "RANDOM_SEED") @@
    (Cyr("bit_xitat6") :> "BITREAD") @@ (Cyr("bit_zapisat6") :> "BITWRITE") @@
    (Cyr("bit_ustanovit6") :> "BITSET") @@ (Cyr("bit_oxistit6") :> "BITCLEAR") @@
    (Cyr("izmenit6") :> "CHANGE") @@ (Cyr("vozrastanie") :> "RISING") @@
    (Cyr("ubyvanie") :> "FALLING") @@
    (Cyr("sekundy") :> "SECONDS") @@ (Cyr("minuty") :> "MINUTES") @@
    (Cyr("xasy") :> "HOURS") @@
    (Cyr("i") :> "AND") @@ (Cyr("ili") :> "OR") @@ (Cyr("ne") :> "NOT") @@
    (Cyr("bol6we") :> "GT") @@ (Cyr("men6we") :> "LT") @@
    (Cyr("ravno") :> "EQ") @@ (Cyr("ne_ravno") :> "NEQ") @@
    (Cyr("bol6we_ravno") :> "GTE") @@ (Cyr("men6we_ravno") :> "LTE")

PIN_ALIASES ==
    (Cyr("svetodiod") :> IntV(13)) @@
    (Cyr("knopka") :> IntV(2)) @@
    (Cyr("potenciometr") :> StrV(Chars("A0"))) @@
    (Cyr("termistor") :> StrV(Chars("A1"))) @@
    (Cyr("fotorezistor") :> StrV(Chars("A2"))) @@
    (Cyr("zummer") :> IntV(3)) @@
    (Cyr("servo") :> IntV(9)) @@
    (Cyr("ul6trazvuk_trigger") :> IntV(10)) @@
    (Cyr("ul6trazvuk_3ho") :> IntV(11)) @@
    ((Cyr("displeq_") \o Chars("sda")) :> StrV(Chars("A4"))) @@
    ((Cyr("displeq_") \o Chars("scl")) :> StrV(Chars("A5")))

(***************************************************************************)
(* lexer.py                                                                *)
(***************************************************************************)

Token(type, value, ln, col) == [type |-> type, value |-> value, line |-> ln, column |-> col]

\* the names of Lexer.token_specs, in the order of the alternation
token_specs ==
    << "WHITESPACE", "NEWLINE", "COMMENT", "ML_COMMENT",
       "FLOAT", "INTEGER", "HEX", "BINARY", "STRING", "CHAR",
       "ASSIGN", "PLUS", "MINUS", "MULTIPLY", "DIVIDE", "MODULO", "POWER",
       "EQ", "NEQ", "LT", "LTE", "GT", "GTE", "AND", "OR", "NOT",
       "LPAREN", "RPAREN", "LBRACE", "RBRACE", "LBRACKET", "RBRACKET",
       "COMMA", "COLON", "SEMICOLON", "DOT", "ARROW", "PIN_PREFIX", "ID" >>

\* the patterns of token_specs that are a fixed text
FixedPattern ==
    [ NEWLINE |-> "\n", ASSIGN |-> "=", PLUS |-> "+", MINUS |-> "-",
      MULTIPLY |-> "*", DIVIDE |-> "/", MODULO |-> "%", POWER |-> "**",
      EQ |-> "==", NEQ |-> "!=", LT |-> "<", LTE |-> "<=", GT |-> ">",
      GTE |-> ">=", AND |-> "&&", OR |-> "||", NOT |-> "!",
      LPAREN |-> "(", RPAREN |-> ")", LBRACE |-> "{", RBRACE |-> "}",
      LBRACKET |-> "[", RBRACKET |-> "]", COMMA |-> ",", COLON |-> ":",
      SEMICOLON |-> ";", DOT |-> ".", ARROW |-> "->" ]

\* the length of the text that the pattern named kind matches at position i
\* of s, 0 if it does not match there
MatchLen(kind, s, i) ==
    CASE kind \in DOMAIN FixedPattern ->
            IF StartsAt(s, i, Chars(FixedPattern[kind])) THEN Len(FixedPattern[kind]) ELSE 0
      [] kind = "WHITESPACE" -> RunLen(s, i, BlankSet)
      [] kind = "COMMENT" ->
            IF StartsAt(s, i, Chars("//"))
            THEN IF FindFrom(s, i + 2, <<"\n">>) = 0 THEN Len(s) - i + 1
                 ELSE FindFrom(s, i + 2, <<"\n">>) - i
            ELSE 0
      [] kind = "ML_COMMENT" ->
            IF StartsAt(s, i, Chars("/*")) /\ FindFrom(s, i + 2, Chars("*/")) > 0
            THEN FindFrom(s, i + 2, Chars("*/")) + 2 - i
            ELSE 0
      [] kind = "FLOAT" ->
            LET d == RunLen(s, i, DigitSet)
                e == RunLen(s, i + d + 1, DigitSet)
            IN IF d > 0 /\ StartsAt(s, i + d, <<".">>) /\ e > 0 THEN d + 1 + e ELSE 0
      [] kind = "INTEGER" -> RunLen(s, i, DigitSet)
      [] kind = "HEX" ->
            IF StartsAt(s, i, Chars("0x")) /\ RunLen(s, i + 2, HexSet) > 0
            THEN 2 + RunLen(s, i + 2, HexSet) ELSE 0
      [] kind = "BINARY" ->
            IF StartsAt(s, i, Chars("0b")) /\ RunLen(s, i + 2, BinSet) > 0
            THEN 2 + RunLen(s, i + 2, BinSet) ELSE 0
      [] kind = "STRING" ->
            IF StartsAt(s, i, <<"\"">>) /\ FindFrom(s, i + 1, <<"\"">>) > 0
            THEN FindFrom(s, i + 1, <<"\"">>) - i + 1
            ELSE 0
      [] kind = "CHAR" ->
            IF /\ StartsAt(s, i, <<"'">>)
               /\ i + 2 <= Len(s)
               /\ s[i + 1] /= "'"
               /\ s[i + 2] = "'"
            THEN 3 ELSE 0
      [] kind = "PIN_PREFIX" ->
            IF i <= Len(s) /\ s[i] \in {"D", "A"} /\ RunLen(s, i + 1, DigitSet) > 0
            THEN 1 + RunLen(s, i + 1, DigitSet) ELSE 0
      [] kind = "ID" ->
            IF i <= Len(s) /\ s[i] \in IdStartSet
            THEN 1 + RunLen(s, i + 1, IdPartSet) ELSE 0
      [] OTHER -> 0

\* match.lastgroup at position i: the number of the first alternative, from
\* alternative n on, that matches there (0 if none does)
RECURSIVE FirstSpecFrom(_, _, _)
FirstSpecFrom(s, i, n) ==
    IF n > Len(token_specs) THEN 0
    ELSE IF MatchLen(token_specs[n], s, i) > 0 THEN n
    ELSE FirstSpecFrom(s, i, n + 1)

FirstSpec(s, i) == FirstSpecFrom(s, i, 1)

\* the start of the next match of token_regex.finditer from position i on
\* (0 if there is none): characters at which no alternative matches are
\* passed over
RECURSIVE MatchStart(_, _)
MatchStart(s, i) ==
    IF i > Len(s) THEN 0
    ELSE IF FirstSpec(s, i) > 0 THEN i
    ELSE MatchStart(s, i + 1)

\* int(text, base) for a text of digits of the base
RECURSIVE ParseBase(_, _)
ParseBase(ds, base) ==
    IF ds = <<>> THEN 0
    ELSE base * ParseBase(SubSeq(ds, 1, Len(ds) - 1), base)
            + (IndexIn("0123456789abcdef", LowerChar(ds[Len(ds)])) - 1)

\* the conversion of the matched text to the token's value
TokenValue(kind, text) ==
    CASE kind = "INTEGER" -> IntV(ParseInt(text))
      [] kind = "HEX"     -> IntV(ParseBase(SubSeq(text, 3, Len(text)), 16))
      [] kind = "BINARY"  -> IntV(ParseBase(SubSeq(text, 3, Len(text)), 2))
      [] kind = "FLOAT" ->
            LET d == RunLen(text, 1, DigitSet)
            IN FloatV(ParseInt(SubSeq(text, 1, d)),
                      StripZeros(SubSeq(text, d + 2, Len(text))))
      [] kind \in {"STRING", "CHAR"} -> StrV(SubSeq(text, 2, Len(text) - 1))
      [] OTHER -> StrV(text)

\* the token kind after keyword resolution
TokenKind(kind, text) == IF kind = "ID" THEN get(KEYWORDS, text, kind) ELSE kind

(***************************************************************************)
(* parser.py: the nodes of the tree                                        *)
(***************************************************************************)

ProgramNode(children) == [cls |-> "ProgramNode", children |-> children]
PinDeclarationNode(pin, mode, value) ==
    [cls |-> "PinDeclarationNode", pin |-> pin, mode |-> mode, value |-> value,
     children |-> <<>>]
DigitalWriteNode(pin, value) ==
    [cls |-> "DigitalWriteNode", pin |-> pin, value |-> value, children |-> <<>>]
DigitalReadNode(pin) == [cls |-> "DigitalReadNode", pin |-> pin, children |-> <<>>]
AnalogWriteNode(pin, value) ==
    [cls |-> "AnalogWriteNode", pin |-> pin, value |-> value, children |-> <<>>]
AnalogReadNode(pin) == [cls |-> "AnalogReadNode", pin |-> pin, children |-> <<>>]
DelayNode(duration) == [cls |-> "DelayNode", duration |-> duration, children |-> <<>>]
SerialBeginNode(baud_rate) ==
    [cls |-> "SerialBeginNode", baud_rate |-> baud_rate, children |-> <<>>]
SerialPrintNode(value, newline) ==
    [cls |-> "SerialPrintNode", value |-> value, newline |-> newline, children |-> <<>>]
LoopNode(children) == [cls |-> "LoopNode", children |-> children]
IfNode(condition, children) ==
    [cls |-> "IfNode", condition |-> condition, children |-> children]
VariableDeclarationNode(name, type, value) ==
    [cls |-> "VariableDeclarationNode", name |-> name, type |-> type, value |-> value,
     children |-> <<>>]
AssignmentNode(name, value) ==
    [cls |-> "AssignmentNode", name |-> name, value |-> value, children |-> <<>>]
FunctionCallNode(name, args, children) ==
    [cls |-> "FunctionCallNode", name |-> name, args |-> args, children |-> children]
BinaryOpNode(left, op, right) ==
    [cls |-> "BinaryOpNode", left |-> left, op |-> op, right |-> right, children |-> <<>>]
\* a condition that is a plain value, not a BinaryOpNode
ValueExpr(v) == [cls |-> "value", v |-> v]
NoNode == [cls |-> "None"]

(***************************************************************************)
(* parser.py: the Parser.  A parser state st holds the position pos of the *)
(* current token (Len(toks) + 1 when current_token is None), the symbol    *)
(* table and the exception raised, if any.  Once an exception is raised    *)
(* every later step leaves the state as it is.                             *)
(***************************************************************************)

NoExc == [type |-> "", msg |-> <<>>]
Exc(type, msg) == [type |-> type, msg |-> msg]

NoneToken == [type |-> "None", value |-> NoneV, line |-> 0, column |-> 0]

ParserInit == [pos |-> 1, symbols |-> <<>>, exc |-> NoExc]

Ok(st) == st.exc = NoExc
Raise(st, type, msg) == IF Ok(st) THEN [st EXCEPT !.exc = Exc(type, msg)] ELSE st

current_token(toks, st) == IF st.pos <= Len(toks) THEN toks[st.pos] ELSE NoneToken
IsNoneToken(t) == t.type = "None"

advance(toks, st) ==
    IF Ok(st) /\ st.pos <= Len(toks) THEN [st EXCEPT !.pos = st.pos + 1] ELSE st

peek(toks, st) == IF st.pos + 1 <= Len(toks) THEN toks[st.pos + 1] ELSE NoneToken

\* the message of the SyntaxError that expect raises
ExpectMessage(token_type, t) ==
    Cyr("Stroka ") \o FormatInt(t.line) \o <<":">> \o FormatInt(t.column)
        \o Chars(" - ") \o Cyr("Ojidals9 ") \o Chars(token_type)
        \o Cyr(", poluxen ") \o Chars(t.type)

expect(toks, st, token_type) ==
    IF current_token(toks, st).type = token_type THEN advance(toks, st)
    ELSE IF IsNoneToken(current_token(toks, st))
         THEN Raise(st, "AttributeError", Chars("'NoneType' object has no attribute 'line'"))
         ELSE Raise(st, "SyntaxError", ExpectMessage(token_type, current_token(toks, st)))

\* if self.current_token.type in types: self.advance()
\* else: raise SyntaxError(msg)
advance_or_raise(toks, st, types, msg) ==
    IF current_token(toks, st).type \in types THEN advance(toks, st)
    ELSE Raise(st, "SyntaxError", msg)

\* if self.current_token and self.current_token.type in types: self.advance()
advance_if(toks, st, types) ==
    IF current_token(toks, st).type \in types THEN advance(toks, st) ELSE st

\* self.symbols[name] = desc
SetSymbol(st, name, desc) ==
    IF Ok(st)
    THEN [st EXCEPT !.symbols =
            IF \E i \in 1..Len(st.symbols) : st.symbols[i].name = name
            THEN [i \in 1..Len(st.symbols) |->
                    IF st.symbols[i].name = name THEN [name |-> name, desc |-> desc]
                    ELSE st.symbols[i]]
            ELSE Append(st.symbols, [name |-> name, desc |-> desc])]
    ELSE st

\* what a parse method leaves: the parser state and the node it returns
Result(st, node) == [st |-> st, node |-> node]

\* a node under construction at parser state st: no child added yet
Body(st) == [st |-> st, children |-> <<>>]

\* add_child with the node put before the children collected so far
add_child_Mutant(b, r) ==
    [st |-> r.st,
     children |-> IF r.node.cls = "None" THEN b.children ELSE <<r.node>> \o b.children]

\* node.add_child(r.node) after the parse method call that left r; a
\* statement that was passed over (no node) adds nothing
add_child(b, r) ==
    [st |-> r.st,
     children |-> IF r.node.cls = "None" THEN b.children ELSE Append(b.children, r.node)]

\* the end of a block whose statements left b: a token END is passed over,
\* and the node returned is node with the children collected
end_block(toks, b, node) ==
    Result(advance_if(toks, b.st, {"END"}), [node EXCEPT !.children = b.children])

parse_pin_declaration(toks, st) ==
    LET s1 == expect(toks, st, "PIN")
        pin == current_token(toks, s1).value
        s2 == expect(toks,
                     advance_or_raise(toks, s1, {"INTEGER", "PIN_PREFIX", "ID"},
                                      Cyr("Ojidals9 nomer pina")),
                     "ASSIGN")
        mode == current_token(toks, s2).value
        s3 == advance_or_raise(toks, s2, {"OUTPUT", "INPUT", "INPUT_PULLUP"},
                               Cyr("Ojidals9 rejim pina (vyhod, vhod, vhod_podt9jka)"))
        hasInit == current_token(toks, s3).type = "ASSIGN"
        s4 == advance_if(toks, s3, {"ASSIGN"})
        hasValue == hasInit /\ current_token(toks, s4).type \in {"HIGH", "LOW", "INTEGER"}
        s5 == advance_if(toks, s4, IF hasInit THEN {"HIGH", "LOW", "INTEGER"} ELSE {})
    IN Result(SetSymbol(s5, pin, [type |-> "pin", mode |-> mode]),
              PinDeclarationNode(pin, mode,
                                 IF hasValue THEN current_token(toks, s4).value ELSE NoneV))

\* the argument loop of parse_function_call
RECURSIVE parse_arguments(_, _, _)
parse_arguments(toks, st, args) ==
    IF Ok(st) /\ current_token(toks, st).type \notin {"None", "RPAREN"}
    THEN parse_arguments(toks, advance_if(toks, advance(toks, st), {"COMMA"}),
                         Append(args,
                                IF current_token(toks, st).type \in {"HIGH", "LOW"}
                                THEN StrV(Upper(current_token(toks, st).value.s))
                                ELSE current_token(toks, st).value))
    ELSE [st |-> st, args |-> args]

\* the node that parse_function_call returns for a call of func_name
call_node(func_name, args) ==
    CASE func_name = StrV(Cyr("cifrzapis6")) /\ Len(args) >= 2 ->
            DigitalWriteNode(args[1], args[2])
      [] func_name = StrV(Cyr("analogzapis6")) /\ Len(args) >= 2 ->
            AnalogWriteNode(args[1], args[2])
      [] func_name = StrV(Cyr("cifrxtenie")) /\ Len(args) >= 1 ->
            DigitalReadNode(args[1])
      [] func_name = StrV(Cyr("analogxtenie")) /\ Len(args) >= 1 ->
            AnalogReadNode(args[1])
      [] func_name = StrV(Cyr("jdat6")) /\ Len(args) >= 1 ->
            DelayNode(args[1])
      [] func_name = StrV(Cyr("pexat6")) ->
            SerialPrintNode(IF args /= <<>> THEN args[1] ELSE StrV(<<>>), FALSE)
      [] func_name = StrV(Cyr("pexat6_stroka")) ->
            SerialPrintNode(IF args /= <<>> THEN args[1] ELSE StrV(<<>>), TRUE)
      [] OTHER -> FunctionCallNode(func_name, args, <<>>)

parse_function_call(toks, st) ==
    LET r == parse_arguments(toks, expect(toks, advance(toks, st), "LPAREN"), <<>>)
    IN Result(expect(toks, r.st, "RPAREN"),
              call_node(current_token(toks, st).value, r.args))

parse_serial_begin(toks, st) ==
    LET s1 == expect(toks, expect(toks, st, "SERIAL_BEGIN"), "LPAREN")
    IN Result(expect(toks,
                     advance_or_raise(toks, s1, {"INTEGER"},
                                      Cyr("Ojidalas6 skorost6 peredaxi (celoe xislo)")),
                     "RPAREN"),
              SerialBeginNode(current_token(toks, s1).value))

parse_expression(toks, st) ==
    LET t0 == current_token(toks, st)
        s1 == advance(toks, st)
        t1 == current_token(toks, s1)
        isOp == t1.type \in {"EQ", "NEQ", "LT", "LTE", "GT", "GTE"}
        s2 == advance(toks, s1)
        t2 == current_token(toks, s2)
        s3 == advance(toks, s2)
    IN IF t0.type \in {"INTEGER", "FLOAT", "ID"}
       THEN IF isOp
            THEN IF t2.type \in {"INTEGER", "FLOAT", "ID"}
                 THEN Result(s3, BinaryOpNode(t0.value, t1.type, t2.value))
                 ELSE Result(s2, ValueExpr(t0.value))
            ELSE Result(s1, ValueExpr(t0.value))
       ELSE Result(Raise(st, "UnboundLocalError",
                         Chars("local variable 'left' referenced before assignment")),
                   NoNode)

parse_variable_declaration(toks, st) ==
    LET var_type == current_token(toks, st).type
        name == current_token(toks, advance(toks, st)).value
        s1 == expect(toks, advance(toks, st), "ID")
        hasInit == current_token(toks, s1).type = "ASSIGN"
        s2 == advance_if(toks, s1, {"ASSIGN"})
        value == IF hasInit /\ current_token(toks, s2).type
                                \in {"INTEGER", "FLOAT", "STRING", "TRUE", "FALSE"}
                 THEN current_token(toks, s2).value ELSE NoneV
        s3 == advance_if(toks, s2,
                         IF hasInit THEN {"INTEGER", "FLOAT", "STRING", "TRUE", "FALSE"}
                         ELSE {})
    IN Result(SetSymbol(s3, name, [type |-> var_type, value |-> value]),
              VariableDeclarationNode(name, var_type, value))

parse_assignment(toks, st) ==
    LET s1 == expect(toks, advance(toks, st), "ASSIGN")
    IN Result(advance(toks, s1),
              AssignmentNode(current_token(toks, st).value, current_token(toks, s1).value))

\* the statement loop of a conditional, while, for or function body: only
\* the calls of the set DIGITALWRITE, ANALOGWRITE, DELAY are collected, every
\* other token before one of the stop kinds is passed over
RECURSIVE parse_body(_, _, _)
parse_body(toks, b, stops) ==
    IF Ok(b.st) /\ current_token(toks, b.st).type \notin (stops \cup {"None"})
    THEN IF current_token(toks, b.st).type \in {"DIGITALWRITE", "ANALOGWRITE", "DELAY"}
         THEN parse_body(toks, add_child(b, parse_function_call(toks, b.st)), stops)
         ELSE parse_body(toks, [b EXCEPT !.st = advance(toks, b.st)], stops)
    ELSE b

\* the else/elif part of parse_if, after the statements b of the condition
parse_else(toks, b) ==
    IF current_token(toks, b.st).type \in {"ELSE", "ELIF"}
    THEN IF current_token(toks, advance(toks, b.st)).type = "COLON"
         THEN parse_body(toks, [b EXCEPT !.st = advance(toks, advance(toks, b.st))],
                         {"EOF", "END"})
         ELSE [b EXCEPT !.st = advance(toks, b.st)]
    ELSE b

parse_if(toks, st) ==
    LET c == parse_expression(toks, expect(toks, st, "IF"))
    IN end_block(toks,
                 parse_else(toks, parse_body(toks, Body(expect(toks, c.st, "COLON")),
                                             {"EOF", "END", "ELSE", "ELIF"})),
                 IfNode(c.node, <<>>))

parse_while(toks, st) ==
    end_block(toks,
              parse_body(toks,
                         Body(expect(toks,
                                     parse_expression(toks, expect(toks, st, "WHILE")).st,
                                     "COLON")),
                         {"EOF", "END"}),
              LoopNode(<<>>))

\* the initialisation (types INT, ID) and the increment (types ID) of
\* parse_for: a declaration or an assignment if the current token starts one
for_clause(toks, st, types) ==
    IF current_token(toks, st).type \notin types THEN st
    ELSE IF current_token(toks, st).type = "INT"
         THEN parse_variable_declaration(toks, st).st
         ELSE parse_assignment(toks, st).st

parse_for(toks, st) ==
    LET s1 == expect(toks,
                     for_clause(toks, expect(toks, expect(toks, st, "FOR"), "LPAREN"),
                                {"INT", "ID"}),
                     "SEMICOLON")
        s2 == expect(toks, parse_expression(toks, s1).st, "SEMICOLON")
        s3 == expect(toks, expect(toks, for_clause(toks, s2, {"ID"}), "RPAREN"), "COLON")
    IN end_block(toks, parse_body(toks, Body(s3), {"EOF", "END"}), LoopNode(<<>>))

\* the parameter loop of parse_function_declaration; it does not advance at
\* a token that is neither a closing parenthesis nor a type keyword, and so
\* never ends there
RECURSIVE parse_params(_, _, _)
parse_params(toks, st, params) ==
    IF Ok(st) /\ current_token(toks, st).type \notin {"None", "RPAREN"}
    THEN IF current_token(toks, st).type \in {"INT", "FLOAT", "BOOL"}
         THEN parse_params(toks,
                           advance_if(toks, expect(toks, advance(toks, st), "ID"), {"COMMA"}),
                           Append(params, << current_token(toks, st).type,
                                             current_token(toks, advance(toks, st)).value >>))
         ELSE [st |-> Raise(st, "NonTermination", <<>>), params |-> params]
    ELSE [st |-> st, params |-> params]

\* the return statement that may end the body b of a function
parse_return(toks, b) ==
    IF current_token(toks, b.st).type = "RETURN"
    THEN [b EXCEPT !.st = advance_if(toks, advance(toks, b.st), {"INTEGER", "FLOAT", "ID"})]
    ELSE b

parse_function_declaration(toks, st) ==
    LET s1 == expect(toks, st, "FUNCTION")
        name == current_token(toks, s1).value
        p  == parse_params(toks, expect(toks, expect(toks, s1, "ID"), "LPAREN"), <<>>)
        s2 == SetSymbol(expect(toks, expect(toks, p.st, "RPAREN"), "COLON"),
                        name, [type |-> "function", params |-> p.params])
    IN end_block(toks,
                 parse_return(toks, parse_body(toks, Body(s2), {"EOF", "END", "RETURN"})),
                 FunctionCallNode(name, <<>>, <<>>))

\* one iteration of the loop of parse_loop: the statement that starts at the
\* current token, or no node when the token is passed over
loop_statement(toks, st) ==
    CASE current_token(toks, st).type = "PIN" -> parse_pin_declaration(toks, st)
      [] current_token(toks, st).type
            \in {"DIGITALWRITE", "ANALOGWRITE", "DELAY", "PRINT", "PRINTLN"} ->
                                                 parse_function_call(toks, st)
      [] current_token(toks, st).type = "IF"    -> parse_if(toks, st)
      [] current_token(toks, st).type = "WHILE" -> parse_while(toks, st)
      [] current_token(toks, st).type = "FOR"   -> parse_for(toks, st)
      [] OTHER                                  -> Result(advance(toks, st), NoNode)

\* the statement loop of parse_loop
RECURSIVE parse_loop_body(_, _)
parse_loop_body(toks, b) ==
    IF Ok(b.st) /\ current_token(toks, b.st).type \notin {"None", "EOF", "END"}
    THEN parse_loop_body(toks, add_child(b, loop_statement(toks, b.st)))
    ELSE b

parse_loop(toks, st) ==
    end_block(toks,
              parse_loop_body(toks, Body(expect(toks, expect(toks, st, "LOOP"), "COLON"))),
              LoopNode(<<>>))

\* one iteration of the loop of Parser.parse: the statement that starts at
\* the current token, or no node when the token is passed over
parse_statement(toks, st) ==
    CASE current_token(toks, st).type = "PIN"          -> parse_pin_declaration(toks, st)
      [] current_token(toks, st).type = "FUNCTION"     -> parse_function_declaration(toks, st)
      [] current_token(toks, st).type = "LOOP"         -> parse_loop(toks, st)
      [] current_token(toks, st).type = "SERIAL_BEGIN" -> parse_serial_begin(toks, st)
      [] current_token(toks, st).type \in {"INT", "FLOAT", "BOOL", "CHAR", "STRING"} ->
                                                          parse_variable_declaration(toks, st)
      [] current_token(toks, st).type = "ID" /\ peek(toks, st).type = "ASSIGN" ->
                                                          parse_assignment(toks, st)
      [] current_token(toks, st).type
            \in {"DIGITALWRITE", "ANALOGWRITE", "DELAY", "PRINT", "PRINTLN"} ->
                                                          parse_function_call(toks, st)
      [] OTHER -> Result(advance(toks, st), NoNode)

(***************************************************************************)
(* codegen.py: the CodeGenerator.  A generator state g holds the output    *)
(* lines, the indentation level, the recorded variables, the include set   *)
(* and the exception raised, if any.                                       *)
(***************************************************************************)

\* a generator that starts with the serial library in its include set
GeneratorInit_Mutant ==
    [output |-> <<>>, indent_level |-> 0, variables |-> <<>>, in_setup |-> TRUE,
     includes |-> {Chars("<Arduino.h>"), Chars("<SoftwareSerial.h>")}, exc |-> NoExc]

GeneratorInit ==
    [output |-> <<>>, indent_level |-> 0, variables |-> <<>>, in_setup |-> TRUE,
     includes |-> {Chars("<Arduino.h>")}, exc |-> NoExc]

\* "  " * self.indent_level
RECURSIVE Indent(_)
Indent(n) == IF n <= 0 THEN <<>> ELSE <<" ", " ">> \o Indent(n - 1)

\* a text that a method returns, or the exception it raises instead
Text(s) == [exc |-> NoExc, s |-> s]
Failed(type, msg) == [exc |-> Exc(type, msg), s |-> <<>>]

\* sep.join(items)
RECURSIVE Join(_, _)
Join(sep, items) ==
    IF items = <<>> THEN <<>>
    ELSE IF Len(items) = 1 THEN items[1]
    ELSE items[1] \o sep \o Join(sep, Tail(items))

\* the f-string whose parts are evaluated in this order: the first exception
\* that a part raises, or else the texts of the parts joined
Format(parts) ==
    IF \A i \in 1..Len(parts) : parts[i].exc = NoExc
    THEN Text(Join(<<>>, [i \in 1..Len(parts) |-> parts[i].s]))
    ELSE parts[CHOOSE i \in 1..Len(parts) :
                /\ parts[i].exc /= NoExc
                /\ \A j \in 1..(i - 1) : parts[j].exc = NoExc]

\* self.output.append(text)
Emit(g, text) == IF Ok(g) THEN [g EXCEPT !.output = Append(g.output, text)] ELSE g

\* self.output.append(r) for a text r that may raise instead
EmitLine(g, r) ==
    IF Ok(g) /\ r.exc /= NoExc THEN [g EXCEPT !.exc = r.exc] ELSE Emit(g, r.s)

\* self.output.append(r) for each r of lines, in order
RECURSIVE EmitLines(_, _)
EmitLines(g, lines) ==
    IF lines = <<>> THEN g ELSE EmitLines(EmitLine(g, Head(lines)), Tail(lines))

\* self.indent_level += d
indent_by(g, d) == IF Ok(g) THEN [g EXCEPT !.indent_level = @ + d] ELSE g

\* the part of normalize_pin that follows the replacement of an alias
pin_text(pin) ==
    IF ~IsStr(pin)
    THEN Failed("AttributeError", Chars("'int' object has no attribute 'startswith'"))
    ELSE IF StartsWith(pin.s, <<"D">>) THEN Text(Tail(pin.s))
    ELSE IF StartsWith(Upper(pin.s), <<"A">>) THEN Text(Upper(pin.s))
    ELSE Text(Str(pin))

normalize_pin(pin) ==
    IF IsStr(pin) THEN pin_text(get(PIN_ALIASES, pin.s, pin)) ELSE Text(Str(pin))

\* normalize_value(value, var_type); var_type is "" when the argument is
\* left out
normalize_value(value, var_type) ==
    IF ~IsStr(value) THEN Text(Str(value))
    ELSE IF Lower(value.s) \in {Cyr("istina"), Chars("true"), Cyr("vysoko"), Cyr("vkl8xeno")}
    THEN Text(IF var_type = "pin" THEN Chars("HIGH") ELSE Chars("true"))
    ELSE IF Lower(value.s) \in {Cyr("loj6"), Chars("false"), Cyr("nizko"), Cyr("vykl8xeno")}
    THEN Text(IF var_type = "pin" THEN Chars("LOW") ELSE Chars("false"))
    ELSE IF value.s \in DOMAIN PIN_ALIASES
    THEN normalize_pin(PIN_ALIASES[value.s])
    ELSE IF var_type = "STRING"
            /\ ~(StartsWith(value.s, <<"\"">>) /\ EndsWith(value.s, <<"\"">>))
    THEN Text(<<"\"">> \o value.s \o <<"\"">>)
    ELSE Text(Str(value))

map_type(type_name) ==
    CASE type_name = "INT"    -> Chars("int")
      [] type_name = "FLOAT"  -> Chars("float")
      [] type_name = "BOOL"   -> Chars("bool")
      [] type_name = "CHAR"   -> Chars("char")
      [] type_name = "STRING" -> Chars("String")
      [] type_name = "VOID"   -> Chars("void")
      [] type_name = "LONG"   -> Chars("long")
      [] type_name = "BYTE"   -> Chars("byte")
      [] type_name = "WORD"   -> Chars("word")
      [] OTHER                -> Chars("int")

\* mode_map.get(node.mode, 'OUTPUT')
mode_map(mode) ==
    CASE mode = StrV(Cyr("vyhod"))         -> Chars("OUTPUT")
      [] mode = StrV(Cyr("vhod"))          -> Chars("INPUT")
      [] mode = StrV(Cyr("vhod_podt9jka")) -> Chars("INPUT_PULLUP")
      [] mode = StrV(Cyr("analog"))        -> Chars("INPUT")
      [] mode = StrV(Cyr("wim"))           -> Chars("OUTPUT")
      [] OTHER                             -> Chars("OUTPUT")

\* value_map.get(key, value) for key = str(value).lower(), as text
value_map(key, value) ==
    CASE key = Cyr("vysoko")    -> Chars("HIGH")
      [] key = Cyr("nizko")     -> Chars("LOW")
      [] key = Cyr("vkl8xeno")  -> Chars("HIGH")
      [] key = Cyr("vykl8xeno") -> Chars("LOW")
      [] OTHER                  -> Str(value)

generate_pin_declaration(g, node, indent) ==
    EmitLines(g,
        << Format(<< Text(indent \o Chars("pinMode(")), normalize_pin(node.pin),
                     Text(Chars(", ") \o mode_map(node.mode) \o Chars(");")) >>) >>
        \o IF ~IsNone(node.value) /\ mode_map(node.mode) = Chars("OUTPUT")
           THEN << Format(<< Text(indent \o Chars("digitalWrite(")), normalize_pin(node.pin),
                             Text(Chars(", ")
                                    \o value_map(Lower(Str(node.value)), node.value)
                                    \o Chars(");")) >>) >>
           ELSE <<>>)

generate_digital_write(g, node, indent) ==
    EmitLine(g, Format(<< Text(indent \o Chars("digitalWrite(")), normalize_pin(node.pin),
                          Text(Chars(", ")), normalize_value(node.value, ""),
                          Text(Chars(");")) >>))

generate_analog_write(g, node, indent) ==
    EmitLine(g, Format(<< Text(indent \o Chars("analogWrite(")), normalize_pin(node.pin),
                          Text(Chars(", ") \o Str(node.value) \o Chars(");")) >>))

generate_digital_read(g, node, indent) ==
    EmitLine(g, Format(<< Text(indent \o Chars("digitalRead(")), normalize_pin(node.pin),
                          Text(Chars(");")) >>))

\* if not pin.startswith('A'): pin = f'A{pin}' if pin.isdigit() else pin
analog_pin(pin) ==
    IF pin.exc /= NoExc THEN pin
    ELSE IF /\ ~StartsWith(pin.s, <<"A">>)
            /\ pin.s /= <<>>
            /\ \A i \in 1..Len(pin.s) : pin.s[i] \in DigitSet
    THEN Text(<<"A">> \o pin.s)
    ELSE pin

generate_analog_read(g, node, indent) ==
    EmitLine(g, Format(<< Text(indent \o Chars("analogRead(")),
                          analog_pin(normalize_pin(node.pin)), Text(Chars(");")) >>))

\* generate_delay with the duration converted from seconds to milliseconds
generate_delay_Mutant(g, node, indent) ==
    Emit(g, indent \o Chars("delay(") \o Str(IntV(node.duration.n * 1000)) \o Chars(");"))

generate_delay(g, node, indent) ==
    Emit(g, indent \o Chars("delay(") \o Str(node.duration) \o Chars(");"))

\* self.includes.add(include)
includes_add(g, include) == IF Ok(g) THEN [g EXCEPT !.includes = @ \cup {include}] ELSE g

generate_serial_begin(g, node, indent) ==
    includes_add(Emit(g, indent \o Chars("Serial.begin(") \o Str(node.baud_rate) \o Chars(");")),
                 Chars("<SoftwareSerial.h>"))

generate_serial_print(g, node, indent) ==
    IF node.newline
    THEN Emit(g, indent \o Chars("Serial.println(") \o Str(node.value) \o Chars(");"))
    ELSE Emit(g, indent \o Chars("Serial.print(") \o Str(node.value) \o Chars(");"))

\* self.variables[name] = info
SetVariable(g, name, info) ==
    IF Ok(g)
    THEN [g EXCEPT !.variables =
            IF \E i \in 1..Len(g.variables) : g.variables[i].name = name
            THEN [i \in 1..Len(g.variables) |->
                    IF g.variables[i].name = name THEN [name |-> name, info |-> info]
                    ELSE g.variables[i]]
            ELSE Append(g.variables, [name |-> name, info |-> info])]
    ELSE g

generate_variable_declaration(g, node, indent) ==
    SetVariable(
        EmitLine(g,
            IF ~IsNone(node.value)
            THEN Format(<< Text(indent \o map_type(node.type) \o <<" ">> \o Str(node.name)
                                    \o Chars(" = ")),
                           normalize_value(node.value, node.type), Text(<<";">>) >>)
            ELSE Text(indent \o map_type(node.type) \o <<" ">> \o Str(node.name) \o <<";">>)),
        node.name, [type |-> node.type, value |-> node.value])

generate_assignment(g, node, indent) ==
    EmitLine(g, Format(<< Text(indent \o Str(node.name) \o Chars(" = ")),
                          normalize_value(node.value, ""), Text(<<";">>) >>))

generate_function_call(g, node, indent) ==
    Emit(g, indent \o Str(node.name) \o <<"(">>
                \o Join(Chars(", "), [i \in 1..Len(node.args) |-> Str(node.args[i])])
                \o Chars(");"))

\* op_map.get(op, op)
op_map(op) ==
    CASE op = "EQ"  -> Chars("==")
      [] op = "NEQ" -> Chars("!=")
      [] op = "LT"  -> Chars("<")
      [] op = "LTE" -> Chars("<=")
      [] op = "GT"  -> Chars(">")
      [] op = "GTE" -> Chars(">=")
      [] op = "AND" -> Chars("&&")
      [] op = "OR"  -> Chars("||")
      [] OTHER      -> Chars(op)

\* generate_binary_op returns its text and appends nothing to the output
generate_binary_op(node) ==
    Format(<< Text(Str(node.left) \o <<" ">> \o op_map(node.op) \o <<" ">>),
              normalize_value(node.right, "") >>)

\* codegen.py does not import BinaryOpNode: the isinstance test that opens
\* generate_expression raises NameError for every argument
generate_expression(expr) ==
    Failed("NameError", Chars("name 'BinaryOpNode' is not defined"))

RECURSIVE generate_node(_, _)
RECURSIVE generate_children(_, _)

generate_loop_content(g, node, indent) == generate_children(g, node.children)

generate_if(g, node, indent) ==
    Emit(indent_by(generate_children(
                      indent_by(EmitLine(g, Format(<< Text(indent \o Chars("if (")),
                                                      generate_expression(node.condition),
                                                      Text(Chars(") {")) >>)),
                                1),
                      node.children),
                   -1),
         indent \o <<"}">>)

generate_node(g, node) ==
    CASE node.cls = "PinDeclarationNode" ->
            generate_pin_declaration(g, node, Indent(g.indent_level))
      [] node.cls = "DigitalWriteNode" ->
            generate_digital_write(g, node, Indent(g.indent_level))
      [] node.cls = "AnalogWriteNode" ->
            generate_analog_write(g, node, Indent(g.indent_level))
      [] node.cls = "DigitalReadNode" ->
            generate_digital_read(g, node, Indent(g.indent_level))
      [] node.cls = "AnalogReadNode" ->
            generate_analog_read(g, node, Indent(g.indent_level))
      [] node.cls = "DelayNode" ->
            generate_delay(g, node, Indent(g.indent_level))
      [] node.cls = "SerialBeginNode" ->
            generate_serial_begin(g, node, Indent(g.indent_level))
      [] node.cls = "SerialPrintNode" ->
            generate_serial_print(g, node, Indent(g.indent_level))
      [] node.cls = "LoopNode" ->
            generate_loop_content(g, node, Indent(g.indent_level))
      [] node.cls = "IfNode" ->
            generate_if(g, node, Indent(g.indent_level))
      [] node.cls = "VariableDeclarationNode" ->
            generate_variable_declaration(g, node, Indent(g.indent_level))
      [] node.cls = "AssignmentNode" ->
            generate_assignment(g, node, Indent(g.indent_level))
      [] node.cls = "FunctionCallNode" ->
            generate_function_call(g, node, Indent(g.indent_level))
      [] OTHER -> g

\* for child in children: self.generate_node(child)
generate_children(g, children) ==
    IF children = <<>> \/ ~Ok(g) THEN g
    ELSE generate_children(generate_node(g, Head(children)), Tail(children))

\* the code point of a character (ord)
AsciiLow  == " !\"#$%&'()*+,-./0123456789:;<=>?@ABCDEFGHIJKLMNOPQRSTUVWXYZ["
AsciiHigh == "abcdefghijklmnopqrstuvwxyz{|}~"
Ord(ch) ==
    IF ch = "\n" THEN 10
    ELSE IF ch = "\t" THEN 9
    ELSE IF IsCyrUpper(ch) THEN 1039 + IndexIn(CyrCodes, SubSeq(ch, 2, 2))
    ELSE IF IsCyrLower(ch) THEN 1071 + IndexIn(CyrCodes, SubSeq(ch, 2, 2))
    ELSE IF IndexIn(AsciiLow, ch) > 0 THEN 31 + IndexIn(AsciiLow, ch)
    ELSE IF IndexIn(AsciiHigh, ch) > 0 THEN 96 + IndexIn(AsciiHigh, ch)
    ELSE IF ch = "]" THEN 93
    ELSE IF ch = "^" THEN 94
    ELSE IF ch = "_" THEN 95
    ELSE 92

\* a < b for two strings
RECURSIVE StrLess(_, _)
StrLess(a, b) ==
    IF b = <<>> THEN FALSE
    ELSE IF a = <<>> THEN TRUE
    ELSE IF Ord(a[1]) /= Ord(b[1]) THEN Ord(a[1]) < Ord(b[1])
    ELSE StrLess(Tail(a), Tail(b))

\* sorted(S) for a set S of strings
RECURSIVE sorted(_)
sorted(S) ==
    IF S = {} THEN <<>>
    ELSE LET m == CHOOSE x \in S : \A y \in S \ {x} : StrLess(x, y)
         IN <<m>> \o sorted(S \ {m})

\* the declaration of a recorded variable in generate_header
global_declaration(var_name, var_info) ==
    map_type(var_info.type) \o <<" ">> \o Str(var_name)
        \o (IF IsNone(var_info.value) THEN <<>>
            ELSE IF var_info.type = "STRING"
                 THEN Chars(" = \"") \o Str(var_info.value) \o <<"\"">>
            ELSE IF var_info.type = "BOOL"
                 THEN Chars(" = ")
                        \o (IF Truthy(var_info.value) THEN Chars("true") ELSE Chars("false"))
            ELSE Chars(" = ") \o Str(var_info.value))
        \o <<";">>

\* var_info['type'] == 'pin': continue
is_global(var) == var.info.type /= "pin"

\* the include directives of generate_header
include_lines(incs) == [i \in 1..Len(incs) |-> Text(Chars("#include ") \o incs[i])]

\* the declarations of the recorded variables in generate_header
global_declarations(vars) ==
    [i \in 1..Len(vars) |-> Text(global_declaration(vars[i].name, vars[i].info))]

\* generate_header: the lines it appends to the output, in order
generate_header(g) ==
    EmitLines(g,
        << Text(Chars("// ") \o Cyr("Sgenerirovano ") \o Chars("ArduinoScript")),
           Text(Chars("// ") \o Cyr("Avtomatixeski sozdannyq kod")),
           Text(<<>>) >>
        \o include_lines(sorted(g.includes))
        \o << Text(<<>>) >>
        \o IF g.variables /= <<>>
           THEN << Text(Chars("// ") \o Cyr("Global6nye peremennye")) >>
                    \o global_declarations(SelectSeq(g.variables, is_global))
                    \o << Text(<<>>) >>
           ELSE <<>>)

\* self.in_setup = False
end_setup(g) == IF Ok(g) THEN [g EXCEPT !.in_setup = FALSE] ELSE g

generate_setup(g, ast) ==
    end_setup(Emit(Emit(indent_by(generate_children(
                                      indent_by(Emit(g, Chars("void setup() {")), 1),
                                      ast.children),
                                  -1),
                        <<"}">>),
                   <<>>))

\* first_loop without the test of the class of the child
first_loop_Mutant(children) == IF children = <<>> THEN <<>> ELSE <<Head(children)>>

\* the first child of the program that is a LoopNode, as a sequence of at
\* most one node (the loop of generate_loop ends at its break)
first_loop(children) ==
    IF \E i \in 1..Len(children) : children[i].cls = "LoopNode"
    THEN <<children[CHOOSE i \in 1..Len(children) :
                /\ children[i].cls = "LoopNode"
                /\ \A j \in 1..(i - 1) : children[j].cls /= "LoopNode"]>>
    ELSE <<>>

\* generate_loop without the break that ends its loop at the first LoopNode
generate_loop_Mutant(g, ast) ==
    Emit(indent_by(generate_children(indent_by(Emit(g, Chars("void loop() {")), 1),
                                     SelectSeq(ast.children, LAMBDA n : n.cls = "LoopNode")),
                   -1),
         <<"}">>)

generate_loop(g, ast) ==
    Emit(indent_by(generate_children(indent_by(Emit(g, Chars("void loop() {")), 1),
                                     first_loop(ast.children)),
                   -1),
         <<"}">>)

(***************************************************************************)
(* compiler.py: ArduinoScriptCompiler.compile, as a state machine.         *)
(*   pc = "read"            compile_file is about to read the input file   *)
(*   pc = "read_failed"     the input file could not be read               *)
(*   pc = "tokenize"        Lexer.tokenize is scanning code                *)
(*   pc = "parse"           Parser.parse is in its statement loop          *)
(*   pc = "generate_header", "generate_setup", "generate_loop", "join"     *)
(*                          CodeGenerator.generate is before that step     *)
(*   pc = "done"            compile has returned cpp_code                  *)
(*   pc = "raised"          compile has raised error                       *)
(*   pc = "hang"            compile is in a loop that never ends           *)
(*   pc = "returned"        compile_file has returned                      *)
(***************************************************************************)

VARIABLES
    code,           \* the program text given to compile
    pc,
    scan,           \* Lexer: the position at which finditer searches next
    line,           \* Lexer.line
    column,         \* Lexer.column
    tokens,         \* Lexer.tokens
    pos,            \* Parser: the position of current_token
    symbols,        \* Parser.symbols
    children,       \* the children of the ProgramNode that parse is building
    ast,            \* ArduinoScriptCompiler.ast
    output,         \* CodeGenerator.output
    indent_level,   \* CodeGenerator.indent_level
    variables,      \* CodeGenerator.variables
    includes,       \* CodeGenerator.includes
    in_setup,       \* CodeGenerator.in_setup
    cpp_code,       \* ArduinoScriptCompiler.cpp_code
    error,          \* the exception that compile raised
    entry,          \* the method that was called: "compile" or "compile_file"
    input_file,     \* the file at input_path
    output_file,    \* the file at output_path
    returned,       \* what compile_file returned: "True", "False", "" before
    threads,        \* concurrent compilations: the locals of each call of compile
    compilers,      \* concurrent compilations: the ArduinoScriptCompiler objects
    calls           \* the number of calls of compile made on the one compiler object

lexer_vars  == <<scan, line, column, tokens>>
parser_vars == <<pos, symbols, children>>
gen_vars    == <<output, indent_level, variables, includes, in_setup>>
io_vars     == <<entry, input_file, output_file, returned>>
vars == <<code, pc, scan, line, column, tokens, pos, symbols, children, ast,
          output, indent_level, variables, includes, in_setup, cpp_code, error,
          entry, input_file, output_file, returned, threads, compilers, calls>>
conc_vars   == <<threads, compilers, calls>>

\* a file with the text text, and a path at which there is no file
File(text) == [exists |-> TRUE, text |-> text]
NoFile == [exists |-> FALSE, text |-> <<>>]

\* the state of the objects of a compilation before any of its steps
Fresh ==
    /\ scan = 1 /\ line = 1 /\ column = 1 /\ tokens = <<>>
    /\ pos = 1 /\ symbols = <<>> /\ children = <<>>
    /\ ast = NoNode
    /\ output = GeneratorInit.output
    /\ indent_level = GeneratorInit.indent_level
    /\ variables = GeneratorInit.variables
    /\ includes = GeneratorInit.includes
    /\ in_setup = GeneratorInit.in_setup
    /\ cpp_code = <<>>
    /\ error = NoExc
    /\ returned = ""

\* the state of a compiler that is about to compile text
Start(text) ==
    /\ code = text
    /\ pc = "tokenize"
    /\ Fresh
    /\ entry = "compile"
    /\ input_file = NoFile
    /\ output_file = NoFile
    /\ threads = <<>> /\ compilers = <<>> /\ calls = 0

\* the state of a compiler that is about to compile the file input to the
\* path at which the file before is
StartFile(input, before) ==
    /\ code = <<>>
    /\ pc = "read"
    /\ Fresh
    /\ entry = "compile_file"
    /\ input_file = input
    /\ output_file = before
    /\ threads = <<>> /\ compilers = <<>> /\ calls = 0

\* compile_file reads the input file, or fails to
ReadInput ==
    /\ pc = "read"
    /\ IF input_file.exists
       THEN code' = input_file.text /\ pc' = "tokenize" /\ UNCHANGED error
       ELSE /\ pc' = "read_failed"
            /\ error' = Exc("FileNotFoundError", Chars("No such file or directory"))
            /\ UNCHANGED code
    /\ UNCHANGED <<lexer_vars, parser_vars, ast, gen_vars, cpp_code, io_vars, conc_vars>>

\* a match of token_regex.finditer: the alternative kind matches at position
\* start of s
Match(kind, s, start) ==
    [kind |-> kind, start |-> start,
     text |-> SubSeq(s, start, start + MatchLen(kind, s, start) - 1)]

\* the next match of token_regex.finditer from position i of s on
NextMatch(s, i) == Match(token_specs[FirstSpec(s, MatchStart(s, i))], s, MatchStart(s, i))

\* int(value) raises ValueError for a text of more digits than the limit of
\* the interpreter on the conversion of a str to an int
int_max_str_digits == 4300

\* the exception that the conversion of the text of the match m raises
conversion_error(m) ==
    IF m.kind = "INTEGER" /\ Len(m.text) > int_max_str_digits
    THEN Exc("ValueError",
             Chars("Exceeds the limit (") \o FormatInt(int_max_str_digits)
               \o Chars(" digits) for integer string conversion: value has ")
               \o FormatInt(Len(m.text))
               \o Chars(" digits; use sys.set_int_max_str_digits() to increase the limit"))
    ELSE NoExc

\* the fields of a Lexer after construction
LexerInit == [scan |-> 1, line |-> 1, column |-> 1, tokens |-> <<>>, exc |-> NoExc]

\* the body of the loop of Lexer.tokenize for the match m, on the Lexer lx
tokenize(lx, m) ==
    [scan |-> m.start + Len(m.text),
     line |-> IF m.kind = "NEWLINE" THEN lx.line + 1
              ELSE IF m.kind \in {"COMMENT", "ML_COMMENT"}
                   THEN lx.line + Count(m.text, "\n")
              ELSE lx.line,
     column |-> IF m.kind = "NEWLINE" THEN 1
                ELSE IF m.kind \in {"COMMENT", "ML_COMMENT"} /\ Count(m.text, "\n") > 0
                     THEN 1
                ELSE lx.column + Len(m.text),
     tokens |-> IF m.kind \in {"NEWLINE", "WHITESPACE", "COMMENT", "ML_COMMENT"}
                      \/ conversion_error(m) /= NoExc
                THEN lx.tokens
                ELSE Append(lx.tokens, Token(TokenKind(m.kind, m.text),
                                             TokenValue(m.kind, m.text),
                                             lx.line, lx.column)),
     exc |-> conversion_error(m)]

\* the end of Lexer.tokenize on the Lexer lx of a text of n characters
tokenize_return(lx, n) ==
    [lx EXCEPT !.tokens = Append(@, Token("EOF", StrV(<<>>), lx.line, lx.column)),
               !.scan = n + 1]

LexerState == [scan |-> scan, line |-> line, column |-> column, tokens |-> tokens,
               exc |-> NoExc]

\* the effect of a step of tokenize that leaves the Lexer as lx
LexerStep(lx) ==
    /\ scan' = lx.scan
    /\ line' = lx.line
    /\ column' = lx.column
    /\ tokens' = lx.tokens
    /\ error' = lx.exc
    /\ pc' = IF lx.exc /= NoExc THEN "raised" ELSE pc

\* the body of the loop of Lexer.tokenize for the match m
Tokenize(m) == LexerStep(tokenize(LexerState, m))

\* one match of token_regex.finditer in Lexer.tokenize
TokenizeMatch ==
    /\ pc = "tokenize"
    /\ MatchStart(code, scan) > 0
    /\ Tokenize(NextMatch(code, scan))
    /\ UNCHANGED <<code, parser_vars, ast, gen_vars, cpp_code, io_vars, conc_vars>>

\* the end of Lexer.tokenize and the construction of the Parser
TokenizeReturn ==
    /\ pc = "tokenize"
    /\ MatchStart(code, scan) = 0
    /\ tokens' = Append(tokens, Token("EOF", StrV(<<>>), line, column))
    /\ scan' = Len(code) + 1
    /\ pc' = "parse"
    /\ pos' = ParserInit.pos /\ symbols' = ParserInit.symbols /\ children' = <<>>
    /\ UNCHANGED <<code, line, column, ast, gen_vars, cpp_code, error, io_vars, conc_vars>>

ParserState == [pos |-> pos, symbols |-> symbols, exc |-> NoExc]

\* the effect of a statement of Parser.parse that left r
ParserStep(r) ==
    /\ pos' = r.st.pos
    /\ symbols' = r.st.symbols
    /\ IF Ok(r.st)
       THEN /\ children' = IF r.node.cls = "None" THEN children ELSE Append(children, r.node)
            /\ UNCHANGED <<pc, error>>
       ELSE /\ pc' = IF r.st.exc.type = "NonTermination" THEN "hang" ELSE "raised"
            /\ error' = r.st.exc
            /\ UNCHANGED children
    /\ UNCHANGED <<code, lexer_vars, ast, gen_vars, cpp_code, io_vars, conc_vars>>

\* one iteration of the statement loop of Parser.parse
ParseStatement ==
    /\ pc = "parse"
    /\ current_token(tokens, ParserState).type \notin {"None", "EOF"}
    /\ ParserStep(parse_statement(tokens, ParserState))

\* the return of Parser.parse and the construction of the CodeGenerator
ParseReturn ==
    /\ pc = "parse"
    /\ current_token(tokens, ParserState).type \in {"None", "EOF"}
    /\ ast' = ProgramNode(children)
    /\ pc' = "generate_header"
    /\ output' = GeneratorInit.output
    /\ indent_level' = GeneratorInit.indent_level
    /\ variables' = GeneratorInit.variables
    /\ includes' = GeneratorInit.includes
    /\ in_setup' = GeneratorInit.in_setup
    /\ UNCHANGED <<code, lexer_vars, parser_vars, cpp_code, error, io_vars, conc_vars>>

GeneratorState ==
    [output |-> output, indent_level |-> indent_level, variables |-> variables,
     in_setup |-> in_setup, includes |-> includes, exc |-> NoExc]

\* the effect of a step of generate that leaves the generator in state g
GeneratorStep(g, next_pc) ==
    /\ output' = g.output
    /\ indent_level' = g.indent_level
    /\ variables' = g.variables
    /\ includes' = g.includes
    /\ in_setup' = g.in_setup
    /\ IF Ok(g) THEN pc' = next_pc /\ UNCHANGED error
       ELSE pc' = "raised" /\ error' = g.exc
    /\ UNCHANGED <<code, lexer_vars, parser_vars, ast, cpp_code, io_vars, conc_vars>>

GenerateHeader ==
    /\ pc = "generate_header"
    /\ GeneratorStep(generate_header(GeneratorState), "generate_setup")

GenerateSetup ==
    /\ pc = "generate_setup"
    /\ GeneratorStep(generate_setup(GeneratorState, ast), "generate_loop")

GenerateLoop ==
    /\ pc = "generate_loop"
    /\ GeneratorStep(generate_loop(GeneratorState, ast), "join")

\* the return of generate and of compile
GenerateReturn ==
    /\ pc = "join"
    /\ cpp_code' = Join(<<"\n">>, output)
    /\ pc' = "done"
    /\ UNCHANGED <<code, lexer_vars, parser_vars, ast, gen_vars, error, io_vars, conc_vars>>

\* compile_file, after compile has returned: the output file is written and
\* True is returned
CompileFileWrite ==
    /\ entry = "compile_file"
    /\ pc = "done"
    /\ output_file' = File(cpp_code)
    /\ returned' = "True"
    /\ pc' = "returned"
    /\ UNCHANGED <<code, lexer_vars, parser_vars, ast, gen_vars, cpp_code, error,
                   entry, input_file, conc_vars>>

\* compile_file, after compile has returned: the output file cannot be
\* written (it is left as it was, or empty); the exception is caught and
\* False is returned
CompileFileWriteFails ==
    /\ entry = "compile_file"
    /\ pc = "done"
    /\ output_file' \in {output_file, File(<<>>)}
    /\ returned' = "False"
    /\ pc' = "returned"
    /\ UNCHANGED <<code, lexer_vars, parser_vars, ast, gen_vars, cpp_code, error,
                   entry, input_file, conc_vars>>

\* the except clause with the output file opened for writing
CompileFileExcept_Mutant ==
    /\ entry = "compile_file"
    /\ pc \in {"read_failed", "raised"}
    /\ output_file' = File(<<>>)
    /\ returned' = "False"
    /\ pc' = "returned"
    /\ UNCHANGED <<code, lexer_vars, parser_vars, ast, gen_vars, cpp_code, error,
                   entry, input_file, conc_vars>>

\* compile_file, the except clause: the exception of the reading or of
\* compile is caught and False is returned
CompileFileExcept ==
    /\ entry = "compile_file"
    /\ pc \in {"read_failed", "raised"}
    /\ returned' = "False"
    /\ pc' = "returned"
    /\ UNCHANGED <<code, lexer_vars, parser_vars, ast, gen_vars, cpp_code, error,
                   entry, input_file, output_file, conc_vars>>

Next ==
    \/ ReadInput
    \/ CompileFileWrite
    \/ CompileFileWriteFails
    \/ CompileFileExcept
    \/ TokenizeMatch
    \/ TokenizeReturn
    \/ ParseStatement
    \/ ParseReturn
    \/ GenerateHeader
    \/ GenerateSetup
    \/ GenerateLoop
    \/ GenerateReturn

(***************************************************************************)
(* The program texts that are compiled                                     *)
(***************************************************************************)

\* the number of top-level statements of the programs that are built from
\* TopStatements
MaxStmts == 2

High == Cyr("vysoko")
Low  == Cyr("nizko")

PinStmt(pin, mode) == Cyr("pin ") \o pin \o Chars(" = ") \o mode
PinInitStmt(pin, mode, value) == PinStmt(pin, mode) \o Chars(" = ") \o value
WriteStmt(pin, level) == Cyr("cifrzapis6(") \o pin \o Chars(", ") \o level \o <<")">>
DelayStmt(n) == Cyr("jdat6(") \o n \o <<")">>
SerialDotStmt(n) == Cyr("posledovatel6nyq.naxat6(") \o n \o <<")">>
SerialBeginStmt(n) == Cyr("naxat6_posledovatel6nyq(") \o n \o <<")">>
ReadCall(fn, pin) == fn \o <<"(">> \o pin \o <<")">>
AssignStmt(name, value) == name \o Chars(" = ") \o value
VarStmt(type, name, value) == type \o <<" ">> \o name \o Chars(" = ") \o value

\* the statements in stmts, one per line
Program(stmts) == Join(<<"\n">>, stmts)

\* a loop block whose body is the statements in body, indented by four spaces
LoopBlock(body) ==
    Program(<<Cyr("cikl:")>> \o [i \in 1..Len(body) |-> Chars("    ") \o body[i]]
                \o <<Cyr("konec")>>)

BlinkLoop ==
    LoopBlock(<< WriteStmt(Chars("13"), High), DelayStmt(Chars("1000")),
                 WriteStmt(Chars("13"), Low), DelayStmt(Chars("500")) >>)

\* the blink program of the built-in test
BlinkProgram == Program(<< PinStmt(Chars("13"), Cyr("vyhod")), BlinkLoop >>)

\* the statements of which programs of up to MaxStmts statements are made
TopStatements ==
    { PinStmt(Chars("13"), Cyr("vyhod")),
      PinInitStmt(Chars("12"), Cyr("vyhod"), High),
      BlinkLoop,
      LoopBlock(<< DelayStmt(Chars("7")) >>),
      LoopBlock(<< AssignStmt(Cyr("znaxenie"), ReadCall(Cyr("analogxtenie"), Chars("A0"))),
                   PinStmt(Chars("D2"), Cyr("vhod")) >>),
      DelayStmt(Chars("250")),
      SerialBeginStmt(Chars("9600")),
      VarStmt(Cyr("celoe"), Cyr("znaxenie"), Chars("0")) }

\* the pins, levels and numbers of the one-statement programs
PinTexts    == { Chars("13"), Chars("2"), Chars("A0"), Chars("D7"), Chars("led") }
LevelTexts  == { High, Low }
DelayTexts  == { Chars("0"), Chars("7"), Chars("007"), Chars("500"), Chars("1000"),
                 Chars("65536") }
BaudTexts   == { Chars("9600"), Chars("115200") }
ReadStatements ==
    { AssignStmt(<<"x">>, ReadCall(Cyr("analogxtenie"), Chars("A0"))),
      AssignStmt(<<"x">>, ReadCall(Cyr("cifrxtenie"), Chars("2"))),
      ReadCall(Cyr("analogxtenie"), Chars("A0")),
      ReadCall(Cyr("cifrxtenie"), Chars("2")) }
\* pin declarations without a mode: at the end of input, before a number,
\* and before a token of another line
MissingModeTexts ==
    { PinStmt(Chars("13"), <<>>),
      PinStmt(Chars("13"), Chars("5")),
      Chars("  ") \o PinStmt(Cyr("svetodiod"), <<>>) \o Chars("\n    ") \o DelayStmt(Chars("5")) }
\* pin declarations of the other kinds: an analog pin, a named pin
OtherPinTexts ==
    { PinStmt(Chars("A0"), Cyr("analog")),
      PinStmt(Chars("A0"), Cyr("vhod")),
      PinStmt(Cyr("svetodiod"), Cyr("vyhod")),
      PinInitStmt(Chars("D7"), Cyr("vhod_podt9jka"), High) }

SingleStatements ==
    { WriteStmt(p, l) : p \in PinTexts, l \in LevelTexts }
        \cup { DelayStmt(n) : n \in DelayTexts }
        \cup { SerialDotStmt(n) : n \in BaudTexts }
        \cup { SerialBeginStmt(n) : n \in BaudTexts }
        \cup ReadStatements
        \cup MissingModeTexts
        \cup OtherPinTexts

\* an if block in the loop block: its condition and the statements of its body
IfBlock(condition, body) ==
    LoopBlock(<<Cyr("esli ") \o condition \o <<":">>>> \o body \o <<Cyr("konec")>>)

\* texts that are not well formed: a call that the end of input cuts short,
\* a condition that begins with an operator
MalformedTexts ==
    { Cyr("cifrzapis6(13"),
      Cyr("jdat6("),
      IfBlock(Chars("== 5"), <<DelayStmt(Chars("5"))>>) }

\* loop blocks with an if block
IfTexts ==
    { IfBlock(Chars("x > 5"), <<DelayStmt(Chars("5"))>>),
      IfBlock(Chars("x"), <<WriteStmt(Chars("13"), High)>>) }

\* the declaration, as an output, of each pin that the alias table names
AliasPinTexts == { PinStmt(a, Cyr("vyhod")) : a \in DOMAIN PIN_ALIASES }

\* texts with characters at which no pattern matches
UnmatchedTexts ==
    { Chars("@ x #"), Chars("$"), Chars("\"x\n  ~ ? ") \o DelayStmt(Chars("5")) }

\* string literals that contain a newline, each followed by a token
MultilineStringTexts ==
    { Chars("\"a\nb\" x"), Chars("x = \"\n\"\ny") }

\* tokens that start no statement, at the top level: literals, punctuation,
\* operators, keywords of statements that only the loop block has
StrayTexts ==
    { Chars("5"), Chars("1.5"), Chars("\"abc\""), Chars("'a'"), Chars(") + ;"),
      Cyr("esli"), Cyr("konec"),
      Chars("\"abc\" x = 5"),
      Chars("7 ") \o DelayStmt(Chars("5")) }

\* function declarations: without parameters, with two, with a parameter
\* that has no type keyword, and cut short in the parameter list
FunctionTexts ==
    { Cyr("funkci9 ") \o Chars("f(): ") \o DelayStmt(Chars("5")) \o Cyr(" konec"),
      Cyr("funkci9 ") \o Chars("f(") \o Cyr("celoe") \o Chars(" x, ") \o Cyr("celoe")
            \o Chars(" y): ") \o Cyr("konec"),
      Cyr("funkci9 ") \o Chars("f(): ") \o Cyr("vernut6") \o Chars(" 5 + 3 ") \o Cyr("konec"),
      Cyr("funkci9 ") \o Chars("f(x):"),
      Cyr("funkci9 ") \o Chars("f(") \o Cyr("celoe") \o Chars(" x"),
      Cyr("funkci9 ") \o Chars("f(") \o Cyr("celoe") }

\* programs that declare a name twice: a pin with two modes, a variable
\* with two types, a pin name that is then a variable, and a variable that
\* the loop block declares again
RedeclarationTexts ==
    { Program(<< PinStmt(Chars("13"), Cyr("vyhod")), PinStmt(Chars("13"), Cyr("vhod")) >>),
      Program(<< VarStmt(Cyr("celoe"), <<"x">>, Chars("1")),
                 VarStmt(Cyr("drobnoe"), <<"x">>, Chars("2.5")) >>),
      Program(<< PinStmt(Chars("led"), Cyr("vyhod")),
                 VarStmt(Cyr("celoe"), Chars("led"), Chars("0")) >>),
      Program(<< VarStmt(Cyr("celoe"), <<"x">>, Chars("1")),
                 LoopBlock(<< VarStmt(Cyr("celoe"), <<"x">>, Chars("2")) >>) >>) }

\* the lines of a block: its header, its body and its end keyword
BlockLines(header, body) == <<header \o <<":">>>> \o body \o <<Cyr("konec")>>
IfLines(condition, body) == BlockLines(Cyr("esli ") \o condition, body)
WhileLines(condition, body) == BlockLines(Cyr("poka ") \o condition, body)
ForLines(body) ==
    BlockLines(Cyr("dl9 (celoe") \o Chars(" i = 0; i < 3; i = 1)"), body)

\* loop blocks with the calls delay(1), delay(2), delay(3) in control
\* statements, and the nesting depth of each call under the loop block:
\* one control statement between two calls, and two nested in one another
NestedCases ==
    { [text |-> LoopBlock(<<DelayStmt(<<"1">>)>> \o WhileLines(Chars("x < 5"), <<DelayStmt(<<"2">>)>>)
                            \o <<DelayStmt(<<"3">>)>>),
       depth |-> <<0, 1, 0>>],
      [text |-> LoopBlock(<<DelayStmt(<<"1">>)>> \o ForLines(<<DelayStmt(<<"2">>)>>)
                            \o <<DelayStmt(<<"3">>)>>),
       depth |-> <<0, 1, 0>>],
      [text |-> LoopBlock(<<DelayStmt(<<"1">>)>> \o IfLines(Chars("x > 5"), <<DelayStmt(<<"2">>)>>)
                            \o <<DelayStmt(<<"3">>)>>),
       depth |-> <<0, 1, 0>>],
      [text |-> LoopBlock(WhileLines(Chars("x < 5"),
                                     IfLines(Chars("y > 1"), <<DelayStmt(<<"1">>)>>)
                                        \o <<DelayStmt(<<"2">>)>>)
                            \o <<DelayStmt(<<"3">>)>>),
       depth |-> <<2, 1, 0>>],
      [text |-> LoopBlock(WhileLines(Chars("x < 5"),
                                     WhileLines(Chars("y < 5"), <<DelayStmt(<<"1">>)>>)
                                        \o <<DelayStmt(<<"2">>)>>)
                            \o <<DelayStmt(<<"3">>)>>),
       depth |-> <<2, 1, 0>>] }
NestedTexts == { c.text : c \in NestedCases }

\* the contents of the string literals: a plain word, the empty string, a
\* logic-level word and a pin alias
StringContents == { Chars("hi"), <<>>, High, Cyr("svetodiod") }
Quoted(text) == <<"\"">> \o text \o <<"\"">>
PrintStmt(fn, text) == fn \o <<"(">> \o Quoted(text) \o <<")">>
StringVarStmt(text) == VarStmt(Cyr("stroka"), <<"s">>, Quoted(text))
StringTexts ==
    { PrintStmt(Cyr("pexat6"), t) : t \in StringContents }
        \cup { PrintStmt(Cyr("pexat6_stroka"), t) : t \in StringContents }
        \cup { StringVarStmt(t) : t \in StringContents }

\* pin declarations with an initial value: the pin modes and the constant
\* of each, the initial levels and values and what is written for each
PinModes ==
    { [text |-> Cyr("vyhod"), constant |-> Chars("OUTPUT")],
      [text |-> Cyr("vhod"), constant |-> Chars("INPUT")],
      [text |-> Cyr("vhod_podt9jka"), constant |-> Chars("INPUT_PULLUP")] }
InitialValues ==
    { [text |-> High, written |-> Chars("HIGH")],
      [text |-> Low, written |-> Chars("LOW")],
      [text |-> Chars("1"), written |-> Chars("1")],
      [text |-> Cyr("vkl8xeno"), written |-> Chars("HIGH")],
      [text |-> Cyr("vykl8xeno"), written |-> Chars("LOW")] }
PinInitTexts ==
    { PinStmt(Chars("13"), m.text) : m \in PinModes }
        \cup { PinInitStmt(Chars("13"), m.text, v.text) : m \in PinModes, v \in InitialValues }

\* an integer literal of one digit more than int() converts
LongLiteral == [i \in 1..(int_max_str_digits + 1) |-> "1"]

\* the operators of two characters and the token kind of each; the literals
\* with a base prefix, the token kind and the value of each
OperatorTokens ==
    { <<Chars("=="), "EQ">>, <<Chars("<="), "LTE">>, <<Chars(">="), "GTE">>,
      <<Chars("**"), "POWER">>, <<Chars("->"), "ARROW">> }
LiteralTokens == { <<Chars("0x1F"), "HEX", 31>>, <<Chars("0b101"), "BINARY", 5>> }

\* the operator op between two names
OperatorText(op) == Chars("a ") \o op \o Chars(" b")

LexicalTexts ==
    { OperatorText(p[1]) : p \in OperatorTokens }
        \cup { p[1] : p \in LiteralTokens }
        \cup { Chars("a = b"), Chars("a < b"), Chars("3.50 42") }

SeqsUpTo(S, n) == UNION { [1..k -> S] : k \in 0..n }

Programs ==
    { Program(ss) : ss \in SeqsUpTo(TopStatements, MaxStmts) }
        \cup SingleStatements
        \cup { LoopBlock(<<st>>) : st \in SingleStatements }
        \cup MalformedTexts
        \cup IfTexts
        \cup AliasPinTexts
        \cup UnmatchedTexts
        \cup MultilineStringTexts
        \cup StrayTexts
        \cup FunctionTexts
        \cup RedeclarationTexts
        \cup NestedTexts
        \cup StringTexts
        \cup PinInitTexts
        \cup LexicalTexts
        \cup {LongLiteral}

\* the input files and the files at the output path of the calls of
\* compile_file: no input file, an empty one, one that compiles, and one for
\* each kind of failure of compile
InputFiles ==
    { NoFile, File(<<>>), File(BlinkProgram), File(PinStmt(Chars("13"), <<>>)),
      File(Cyr("jdat6(")), File(IfBlock(Chars("x > 5"), <<DelayStmt(Chars("5"))>>)) }
OutputFiles == { NoFile, File(Chars("// old")) }

Init ==
    \/ \E text \in Programs : Start(text)
    \/ \E input \in InputFiles, before \in OutputFiles : StartFile(input, before)

Spec == Init /\ [][Next]_vars

(***************************************************************************)
(* Concurrent compilations                                                 *)
(*                                                                         *)
(* Each thread calls compile on an ArduinoScriptCompiler.  The Lexer, the  *)
(* Parser and the CodeGenerator are locals of the call; self.ast and       *)
(* self.cpp_code are fields of the compiler object, written by one         *)
(* statement of compile and read by the next.  A step of a thread is one   *)
(* step of the sequential machine above, with the write and the read of    *)
(* each field taken apart.                                                 *)
(***************************************************************************)

Threads == {1, 2}

\* the locals of a call of compile(text) at its start
NewThread(text) ==
    [code |-> text, pc |-> "tokenize", lexer |-> LexerInit, parser |-> ParserInit,
     children |-> <<>>, ast |-> NoNode, generator |-> GeneratorInit,
     result |-> <<>>, error |-> NoExc]

\* the fields of an ArduinoScriptCompiler after construction
NewCompiler == [ast |-> NoNode, cpp_code |-> <<>>]

\* the thread th after a step of tokenize that leaves its Lexer as lx
Lexed(th, lx) ==
    [th EXCEPT !.lexer = [lx EXCEPT !.exc = NoExc],
               !.error = lx.exc,
               !.pc = IF lx.exc /= NoExc THEN "raised" ELSE @]

\* the thread th after a statement of Parser.parse that left r
Parsed(th, r) ==
    [th EXCEPT !.parser = [r.st EXCEPT !.exc = NoExc],
               !.children = IF Ok(r.st) /\ r.node.cls /= "None" THEN Append(@, r.node)
                            ELSE @,
               !.error = r.st.exc,
               !.pc = IF Ok(r.st) THEN @
                      ELSE IF r.st.exc.type = "NonTermination" THEN "hang"
                      ELSE "raised"]

\* the thread th after a step of generate that leaves its generator as g
Generated(th, g, next_pc) ==
    [th EXCEPT !.generator = [g EXCEPT !.exc = NoExc],
               !.error = g.exc,
               !.pc = IF Ok(g) THEN next_pc ELSE "raised"]

\* one step of compile in the thread th on the compiler object c: the
\* thread and the compiler object after it
compile_step(th, c) ==
    CASE th.pc = "tokenize" ->
           [thread |-> IF MatchStart(th.code, th.lexer.scan) > 0
                       THEN Lexed(th, tokenize(th.lexer, NextMatch(th.code, th.lexer.scan)))
                       ELSE [th EXCEPT !.lexer = tokenize_return(@, Len(th.code)),
                                       !.pc = "parse"],
            compiler |-> c]
      [] th.pc = "parse" ->
           IF current_token(th.lexer.tokens, th.parser).type \notin {"None", "EOF"}
           THEN [thread |-> Parsed(th, parse_statement(th.lexer.tokens, th.parser)),
                 compiler |-> c]
           ELSE [thread |-> [th EXCEPT !.pc = "construct"],
                 compiler |-> [c EXCEPT !.ast = ProgramNode(th.children)]]
      [] th.pc = "construct" ->
           [thread |-> [th EXCEPT !.ast = c.ast, !.pc = "generate_header"],
            compiler |-> c]
      [] th.pc = "generate_header" ->
           [thread |-> Generated(th, generate_header(th.generator), "generate_setup"),
            compiler |-> c]
      [] th.pc = "generate_setup" ->
           [thread |-> Generated(th, generate_setup(th.generator, th.ast), "generate_loop"),
            compiler |-> c]
      [] th.pc = "generate_loop" ->
           [thread |-> Generated(th, generate_loop(th.generator, th.ast), "join"),
            compiler |-> c]
      [] th.pc = "join" ->
           [thread |-> [th EXCEPT !.pc = "return"],
            compiler |-> [c EXCEPT !.cpp_code = Join(<<"\n">>, th.generator.output)]]
      [] th.pc = "return" ->
           [thread |-> [th EXCEPT !.result = c.cpp_code, !.pc = "done"],
            compiler |-> c]

\* both threads call compile on the one compiler object
compiler_of_Mutant(t) == 1

\* the compiler object of thread t: each thread constructs its own
compiler_of(t) == t

\* the sequential machine stands still while the threads run
Idle ==
    /\ code = <<>> /\ pc = "idle" /\ Fresh
    /\ entry = "threads" /\ input_file = NoFile /\ output_file = NoFile

\* the texts the threads compile
ThreadTexts ==
    { <<>>,
      DelayStmt(Chars("5")),
      PinStmt(Chars("13"), Cyr("vyhod")),
      Cyr("jdat6("),
      LoopBlock(<< DelayStmt(Chars("7")) >>) }

ConcInit ==
    /\ Idle
    /\ threads \in [Threads -> { NewThread(text) : text \in ThreadTexts }]
    /\ compilers = [i \in Threads |-> NewCompiler]
    /\ calls = 0

\* a step of compile in thread t
Step(t) ==
    /\ threads[t].pc \notin {"done", "raised", "hang"}
    /\ threads' = [threads EXCEPT
                     ![t] = compile_step(threads[t], compilers[compiler_of(t)]).thread]
    /\ compilers' = [compilers EXCEPT
                     ![compiler_of(t)] =
                         compile_step(threads[t], compilers[compiler_of(t)]).compiler]
    /\ UNCHANGED <<code, pc, lexer_vars, parser_vars, ast, gen_vars, cpp_code, error,
                   io_vars, calls>>

ConcNext == \E t \in Threads : Step(t)

ConcSpec == ConcInit /\ [][ConcNext]_vars

(***************************************************************************)
(* Successive compilations on one compiler object                          *)
(*                                                                         *)
(* compile is called again and again on one ArduinoScriptCompiler, as      *)
(* compile_string and compile_file do; each call runs to its end before    *)
(* the next, and self.ast and self.cpp_code keep what the calls wrote.     *)
(***************************************************************************)

\* the number of calls of compile on the one compiler object
MaxCalls == 3

\* the texts of the calls: two that compile, one that parse rejects, and one
\* on whose tree generate fails
CallTexts ==
    { DelayStmt(Chars("5")),
      LoopBlock(<< DelayStmt(Chars("7")) >>),
      Cyr("jdat6("),
      PinStmt(Cyr("svetodiod"), Cyr("vyhod")) }

CallsInit ==
    /\ Idle
    /\ \E text \in CallTexts : threads = << NewThread(text) >>
    /\ compilers = << NewCompiler >>
    /\ calls = 1

\* the next call of compile, after the one before has returned or raised
Call ==
    /\ threads[1].pc \in {"done", "raised"}
    /\ calls < MaxCalls
    /\ \E text \in CallTexts : threads' = << NewThread(text) >>
    /\ calls' = calls + 1
    /\ UNCHANGED <<code, pc, lexer_vars, parser_vars, ast, gen_vars, cpp_code, error,
                   io_vars, compilers>>

CallsNext == Step(1) \/ Call

CallsSpec == CallsInit /\ [][CallsNext]_vars

\* compile run alone from the thread th on the compiler object c, to its end
RECURSIVE Run(_, _)
Run(th, c) ==
    IF th.pc \in {"done", "raised", "hang"} THEN th
    ELSE Run(compile_step(th, c).thread, compile_step(th, c).compiler)

\* what a call of compile gives: how it ended, the text returned, the
\* exception raised
Outcome(th) == [pc |-> th.pc, result |-> th.result, error |-> th.error]

(***************************************************************************)
(* The generated text: its routines                                        *)
(***************************************************************************)

\* compile has ended: it returned, raised, or runs for ever
Final == pc \in {"done", "raised", "hang"}

\* the position of the first line of lines that equals text, 0 if none does
LineIndex(lines, text) ==
    IF \E i \in 1..Len(lines) : lines[i] = text
    THEN CHOOSE i \in 1..Len(lines) : lines[i] = text /\ \A j \in 1..(i - 1) : lines[j] /= text
    ELSE 0

HasLine(lines, text) == \E i \in 1..Len(lines) : lines[i] = text

\* the lines after position a of lines and before the next line "}"
BodyFrom(lines, a) ==
    SubSeq(lines, a + 1, a + LineIndex(SubSeq(lines, a + 1, Len(lines)), <<"}">>) - 1)

\* the lines between the line that opens a routine and the line "}" that
\* closes it
RoutineBody(lines, opening) ==
    IF LineIndex(lines, opening) = 0 THEN <<>>
    ELSE BodyFrom(lines, LineIndex(lines, opening))

SetupBody == RoutineBody(output, Chars("void setup() {"))
LoopBody  == RoutineBody(output, Chars("void loop() {"))

\* sub occurs in text
Contains(text, sub) == \E i \in 1..(Len(text) - Len(sub) + 1) : StartsAt(text, i, sub)

\* the lines of lines in which sub occurs
LinesWith(lines, sub) == SelectSeq(lines, LAMBDA l : Contains(l, sub))

\* a line of a routine body that is the statement stmt at the first level
Statement(stmt) == Chars("  ") \o stmt

\* the nodes of the trees, parents before their children
RECURSIVE Nodes(_)
Nodes(trees) ==
    IF trees = <<>> THEN <<>>
    ELSE <<Head(trees)>> \o Nodes(Head(trees).children) \o Nodes(Tail(trees))

\* the nodes of the trees that are of class cls
NodesOf(trees, cls) == SelectSeq(Nodes(trees), LAMBDA n : n.cls = cls)

\* the nodes of a sequence that are LoopNodes
Loops(nodes) == SelectSeq(nodes, LAMBDA n : n.cls = "LoopNode")

\* the decimal numeral ds without its leading zeros
RECURSIVE Numeral(_)
Numeral(ds) == IF Len(ds) > 1 /\ Head(ds) = "0" THEN Numeral(Tail(ds)) ELSE ds

(***************************************************************************)
(* C1: compiling the blink program succeeds; the body of void loop() is,   *)
(* in this order, a write call that sets pin 13 high, delay(1000), a write *)
(* call that sets pin 13 low and delay(500), and void setup() contains     *)
(* pinMode(13, OUTPUT).  A write call sets the pin high when its level     *)
(* argument is HIGH or true, and low when it is LOW or false.              *)
(***************************************************************************)
C1_Blink ==
    (code = BlinkProgram /\ Final) =>
        /\ pc = "done"
        /\ \E high \in {Chars("HIGH"), Chars("true")}, low \in {Chars("LOW"), Chars("false")} :
              LoopBody = << Statement(Chars("digitalWrite(13, ") \o high \o Chars(");")),
                            Statement(Chars("delay(1000);")),
                            Statement(Chars("digitalWrite(13, ") \o low \o Chars(");")),
                            Statement(Chars("delay(500);")) >>
        /\ HasLine(SetupBody, Statement(Chars("pinMode(13, OUTPUT);")))

C1_Witness == code = BlinkProgram /\ pc = "done" /\ Len(LoopBody) = 4

(***************************************************************************)
(* C2: for every pin p, the program that is the digital write call of p    *)
(* with the level keyword for high (for low) compiles to output with the   *)
(* statement digitalWrite(p, HIGH); (digitalWrite(p, LOW);), p written as  *)
(* normalize_pin writes it; the output of the blink program contains       *)
(* digitalWrite(13, HIGH).                                                 *)
(***************************************************************************)
C2_LevelConstant ==
    /\ \A p \in PinTexts \ {Chars("led")} :
          /\ (code = WriteStmt(p, High) /\ Final) =>
                /\ pc = "done"
                /\ \E pin \in {p, Tail(p)} :
                      HasLine(output, Statement(Chars("digitalWrite(") \o pin
                                                    \o Chars(", HIGH);")))
          /\ (code = WriteStmt(p, Low) /\ Final) =>
                /\ pc = "done"
                /\ \E pin \in {p, Tail(p)} :
                      HasLine(output, Statement(Chars("digitalWrite(") \o pin
                                                    \o Chars(", LOW);")))
    /\ (code = BlinkProgram /\ Final) =>
          LinesWith(output, Chars("digitalWrite(13, HIGH)")) /= <<>>

(***************************************************************************)
(* C3: for every baud rate n, the program that is the serial               *)
(* initialization written with the dot compiles, and void setup()          *)
(* contains the statement Serial.begin(n);                                 *)
(***************************************************************************)
C3_SerialBegin ==
    \A n \in BaudTexts :
        (code = SerialDotStmt(n) /\ Final) =>
            /\ pc = "done"
            /\ HasLine(SetupBody, Statement(Chars("Serial.begin(") \o n \o Chars(");")))

(***************************************************************************)
(* C4: a program with an analog read call of A0 (a digital read call of    *)
(* pin 2), as a statement or as the right-hand side of an assignment, at   *)
(* the top level or in the loop block, compiles; its tree has an           *)
(* AnalogReadNode (a DigitalReadNode) and its output contains              *)
(* analogRead(A0) (digitalRead(2)).                                        *)
(***************************************************************************)
C4_ReadCalls ==
    \A st \in ReadStatements :
        (code \in {st, LoopBlock(<<st>>)} /\ Final) =>
            /\ pc = "done"
            /\ IF Contains(st, Cyr("analogxtenie"))
               THEN /\ NodesOf(ast.children, "AnalogReadNode") /= <<>>
                    /\ LinesWith(output, Chars("analogRead(A0)")) /= <<>>
               ELSE /\ NodesOf(ast.children, "DigitalReadNode") /= <<>>
                    /\ LinesWith(output, Chars("digitalRead(2)")) /= <<>>

(***************************************************************************)
(* C5: compiling the empty string succeeds, and the output is the two      *)
(* header comment lines, the directive #include <Arduino.h>, and the       *)
(* routines void setup() and void loop(), each with an empty body, and     *)
(* nothing else but the blank lines that separate them.                    *)
(***************************************************************************)
C5_EmptyProgram ==
    (code = <<>> /\ Final) =>
        /\ pc = "done"
        /\ output = << Chars("// ") \o Cyr("Sgenerirovano ") \o Chars("ArduinoScript"),
                       Chars("// ") \o Cyr("Avtomatixeski sozdannyq kod"),
                       <<>>,
                       Chars("#include <Arduino.h>"),
                       <<>>,
                       Chars("void setup() {"),
                       <<"}">>,
                       <<>>,
                       Chars("void loop() {"),
                       <<"}">> >>
        /\ cpp_code = Join(<<"\n">>, output)

C5_Witness == code = <<>> /\ pc = "done" /\ Len(output) = 10

(***************************************************************************)
(* C6: when the compilation of a program whose Program node has no Loop    *)
(* child has ended normally, the output has the routine void loop() and    *)
(* no line between its opening line and its closing brace.                 *)
(***************************************************************************)
C6_NoLoop ==
    (pc = "done" /\ Loops(ast.children) = <<>>) =>
        /\ LineIndex(output, Chars("void loop() {")) > 0
        /\ LineIndex(output, Chars("void loop() {")) + 1 <= Len(output)
        /\ output[LineIndex(output, Chars("void loop() {")) + 1] = <<"}">>

C6_Witness ==
    /\ pc = "done"
    /\ Len(ast.children) >= 2
    /\ Loops(ast.children) = <<>>
    /\ LoopBody = <<>>

(***************************************************************************)
(* C7: when the compilation of a program with two or more top-level loop   *)
(* blocks has ended normally, the body of void loop() is the lines that    *)
(* the statements of the first loop block translate to, at the first       *)
(* level, and nothing else.                                                *)
(***************************************************************************)
C7_FirstLoopOnly ==
    (pc = "done" /\ Len(Loops(ast.children)) >= 2) =>
        LoopBody = generate_children([GeneratorInit EXCEPT !.indent_level = 1],
                                     Loops(ast.children)[1].children).output

C7_Witness ==
    /\ pc = "done"
    /\ Len(Loops(ast.children)) >= 2
    /\ Loops(ast.children)[1].children /= Loops(ast.children)[2].children
    /\ Loops(ast.children)[2].children /= <<>>
    /\ LoopBody /= <<>>

(***************************************************************************)
(* C8: when the compilation of a program has ended normally and the        *)
(* program has exactly one pin declaration, in output mode and without an  *)
(* initial value, the body of void setup() has exactly one pinMode call,   *)
(* the call pinMode(p, OUTPUT); for the pin p declared, and no             *)
(* digitalWrite or analogWrite call.                                       *)
(***************************************************************************)
C8_SetupOfOnePin ==
    (/\ pc = "done"
     /\ Len(NodesOf(ast.children, "PinDeclarationNode")) = 1
     /\ NodesOf(ast.children, "PinDeclarationNode")[1].mode = StrV(Cyr("vyhod"))
     /\ IsNone(NodesOf(ast.children, "PinDeclarationNode")[1].value)
     /\ ~IsStr(NodesOf(ast.children, "PinDeclarationNode")[1].pin)) =>
        /\ LinesWith(SetupBody, Chars("pinMode(")) =
              << Statement(Chars("pinMode(")
                            \o Str(NodesOf(ast.children, "PinDeclarationNode")[1].pin)
                            \o Chars(", OUTPUT);")) >>
        /\ LinesWith(SetupBody, Chars("digitalWrite(")) = <<>>
        /\ LinesWith(SetupBody, Chars("analogWrite(")) = <<>>

(***************************************************************************)
(* C9: for every decimal numeral n, the program that is the wait call of n *)
(* compiles to a void setup() whose body is the one statement delay(n);    *)
(* and the program that is a loop block with the wait call of n compiles   *)
(* to a void loop() whose body is that statement, with n written without   *)
(* leading zeros: the same integer.                                        *)
(***************************************************************************)
C9_DelayUnchanged ==
    \A n \in DelayTexts :
        /\ (code = DelayStmt(n) /\ Final) =>
              /\ pc = "done"
              /\ SetupBody = << Statement(Chars("delay(") \o Numeral(n) \o Chars(");")) >>
        /\ (code = LoopBlock(<<DelayStmt(n)>>) /\ Final) =>
              /\ pc = "done"
              /\ LoopBody = << Statement(Chars("delay(") \o Numeral(n) \o Chars(");")) >>

C9_Witness ==
    /\ code = DelayStmt(Chars("007"))
    /\ pc = "done"
    /\ SetupBody = << Statement(Chars("delay(7);")) >>

(***************************************************************************)
(* C10: the compilation of a pin declaration without a mode (the token     *)
(* after the sign = is not a mode keyword, or is the end of input) raises  *)
(* a SyntaxError whose message has the line and the column of that token,  *)
(* written line:column.                                                    *)
(***************************************************************************)
C10_MissingMode ==
    (code \in MissingModeTexts /\ Final) =>
        /\ pc = "raised"
        /\ error.type = "SyntaxError"
        /\ Contains(error.msg, FormatInt(tokens[pos].line) \o <<":">>
                                    \o FormatInt(tokens[pos].column))

(***************************************************************************)
(* C11: whenever compile does not return the target text, it has raised a  *)
(* SyntaxError whose message carries a line and a column (it begins with   *)
(* the word for line and has line:column); no error of another kind        *)
(* leaves compile, and compile does not run for ever.                      *)
(***************************************************************************)
C11_OnlySyntaxErrors ==
    (Final /\ pc /= "done") =>
        /\ pc = "raised"
        /\ error.type = "SyntaxError"
        /\ StartsWith(error.msg, Cyr("Stroka "))
        /\ Contains(error.msg, <<":">>)

(***************************************************************************)
(* C12: when parse has returned a tree, generate returns the target text:  *)
(* a compilation whose tree is built ends normally.                        *)
(***************************************************************************)
C12_GenerateTotal ==
    (Final /\ ast.cls = "ProgramNode") => pc = "done"

(***************************************************************************)
(* C14: for every alias of the pin-alias table, the declaration of the pin *)
(* of that name as an output compiles to a void setup() with the call      *)
(* pinMode(p, OUTPUT); where p is the pin the table gives for the alias;   *)
(* the declaration of pin D7 emits a pinMode call of 7, and that of pin A0 *)
(* a pinMode call of A0.                                                   *)
(***************************************************************************)
C14_AliasPins ==
    /\ \A a \in DOMAIN PIN_ALIASES :
          (code = PinStmt(a, Cyr("vyhod")) /\ Final) =>
              /\ pc = "done"
              /\ HasLine(SetupBody, Statement(Chars("pinMode(") \o Str(PIN_ALIASES[a])
                                                \o Chars(", OUTPUT);")))
    /\ (code = PinInitStmt(Chars("D7"), Cyr("vhod_podt9jka"), High) /\ Final) =>
          /\ pc = "done"
          /\ HasLine(SetupBody, Statement(Chars("pinMode(7, INPUT_PULLUP);")))
    /\ (code = PinStmt(Chars("A0"), Cyr("vhod")) /\ Final) =>
          /\ pc = "done"
          /\ HasLine(SetupBody, Statement(Chars("pinMode(A0, INPUT);")))

(***************************************************************************)
(* C15: when a compilation has ended normally, the #include lines of the   *)
(* output are in ascending order without a repetition, #include            *)
(* <Arduino.h> is one of them, and #include <SoftwareSerial.h> is one of   *)
(* them if and only if the program has a serial initialization statement   *)
(* (its tree has a SerialBeginNode).                                       *)
(***************************************************************************)
C15_Includes ==
    pc = "done" =>
        /\ \A i, j \in 1..Len(LinesWith(output, Chars("#include "))) :
              i < j => StrLess(LinesWith(output, Chars("#include "))[i],
                               LinesWith(output, Chars("#include "))[j])
        /\ HasLine(output, Chars("#include <Arduino.h>"))
        /\ HasLine(output, Chars("#include <SoftwareSerial.h>"))
              <=> (NodesOf(ast.children, "SerialBeginNode") /= <<>>)

(***************************************************************************)
(* C16: when a compilation has ended normally, every variable that the     *)
(* program declares (every VariableDeclarationNode of its tree) has its    *)
(* declaration, the C++ type followed by the name, on a line of the output *)
(* that precedes the line void setup() {.                                  *)
(***************************************************************************)
C16_GlobalDeclarations ==
    pc = "done" =>
        \A k \in 1..Len(NodesOf(ast.children, "VariableDeclarationNode")) :
            \E i \in 1..(LineIndex(output, Chars("void setup() {")) - 1) :
                StartsWith(output[i],
                           map_type(NodesOf(ast.children, "VariableDeclarationNode")[k].type)
                             \o <<" ">>
                             \o Str(NodesOf(ast.children, "VariableDeclarationNode")[k].name))

(***************************************************************************)
(* C18: tokenize ends without raising, for every text: no compilation is   *)
(* ended by an exception of the tokenizer, and once tokenize has returned  *)
(* the tokens are a sequence whose last token, and no other, is the EOF    *)
(* token, with the line and the column that the tokenizer has reached;     *)
(* for a text with characters that match no pattern too.                   *)
(***************************************************************************)
C18_TokenizeTotal ==
    (pc \in {"parse", "generate_header", "generate_setup", "generate_loop", "join",
             "done", "raised", "hang"}) =>
        /\ error.type /= "ValueError"
        /\ tokens /= <<>>
        /\ tokens[Len(tokens)] = Token("EOF", StrV(<<>>), line, column)
        /\ \A i \in 1..(Len(tokens) - 1) : tokens[i].type /= "EOF"

(***************************************************************************)
(* C20: the token produced at a position is the longest text that a        *)
(* pattern matches there: each of the operators ==, <=, >=, ** and ->      *)
(* between two names is one token of the kind EQ, LTE, GTE, POWER, ARROW,  *)
(* and the literals 0x1F and 0b101 are one token each, of the kind HEX     *)
(* with the value 31 and of the kind BINARY with the value 5.              *)
(***************************************************************************)
C20_LongestMatch ==
    pc /= "tokenize" =>
        /\ \A p \in OperatorTokens :
              code = OperatorText(p[1]) =>
                  /\ Len(tokens) = 4
                  /\ tokens[2].type = p[2]
                  /\ tokens[2].value = StrV(p[1])
        /\ \A p \in LiteralTokens :
              code = p[1] =>
                  /\ Len(tokens) = 2
                  /\ tokens[1].type = p[2]
                  /\ tokens[1].value = IntV(p[3])

\* the node classes with a pin that is used
PinUses == {"DigitalWriteNode", "AnalogWriteNode", "DigitalReadNode", "AnalogReadNode"}

\* the pin of a node is an identifier: a str that is not a pin literal D<n>
\* or A<n>
IsIdentifierPin(pin) == IsStr(pin) /\ MatchLen("PIN_PREFIX", pin.s, 1) /= Len(pin.s)

\* every identifier used as a pin by a node of ns is an alias of the table
\* or the pin of a pin declaration that comes earlier in ns
PinsKnown(ns) ==
    \A k \in 1..Len(ns) :
        (ns[k].cls \in PinUses /\ IsIdentifierPin(ns[k].pin)) =>
            \/ ns[k].pin.s \in DOMAIN PIN_ALIASES
            \/ \E j \in 1..(k - 1) :
                  ns[j].cls = "PinDeclarationNode" /\ ns[j].pin = ns[k].pin

(***************************************************************************)
(* C19: when parse has returned the tree of a program, every identifier    *)
(* that a digital or analog write or read of the tree uses as its pin is a *)
(* key of the pin-alias table or is the pin of a pin declaration that      *)
(* comes earlier in the program.                                           *)
(***************************************************************************)
C19_PinsDeclared ==
    ast.cls = "ProgramNode" => PinsKnown(Nodes(ast.children))

(***************************************************************************)
(* C13: when the reading of the input or compile has failed with an error, *)
(* compile_file returns False; and the output file changes only in the     *)
(* step that follows the normal return of compile: a call in which the     *)
(* reading or compile fails leaves the output file as it was.              *)
(***************************************************************************)
C13_CompileFile ==
    /\ []((pc = "returned" /\ error /= NoExc) => returned = "False")
    /\ [][output_file' /= output_file => pc = "done"]_vars

C13_Witness ==
    /\ pc = "returned"
    /\ returned = "False"
    /\ error.type = "SyntaxError"
    /\ output_file = File(Chars("// old"))


(***************************************************************************)
(* C17  Two compilations that run concurrently, each on its own            *)
(* ArduinoScriptCompiler, do not interfere: under every interleaving of    *)
(* their steps a compilation that has ended has returned the text, or      *)
(* raised the exception, that it gives when run alone; and a step of one   *)
(* thread leaves the Lexer, the Parser (token position, symbol table), the *)
(* CodeGenerator (output buffer, include set) and the compiler object of   *)
(* the other thread as they were.                                          *)
(***************************************************************************)
C17_NoInterference ==
    /\ [](\A t \in DOMAIN threads :
            threads[t].pc \in {"done", "raised", "hang"} =>
                Outcome(threads[t]) = Outcome(Run(NewThread(threads[t].code), NewCompiler)))
    /\ [][\A t \in DOMAIN threads :
            threads'[t] /= threads[t] =>
                \A u \in DOMAIN threads \ {t} :
                    /\ threads'[u] = threads[u]
                    /\ compilers'[compiler_of(u)] = compilers[compiler_of(u)]]_vars

\* both compilations have returned, each its own text, the second a loop
C17_Witness ==
    /\ threads /= <<>>
    /\ threads[1].pc = "done" /\ threads[2].pc = "done"
    /\ threads[1].code = PinStmt(Chars("13"), Cyr("vyhod"))
    /\ threads[2].code = LoopBlock(<< DelayStmt(Chars("7")) >>)
    /\ threads[1].result /= threads[2].result
    /\ threads[1].result = compilers[1].cpp_code
    /\ threads[2].result = compilers[2].cpp_code

(***************************************************************************)
(* C21  Position bookkeeping is exact: for an input without block          *)
(* comments, the line recorded in each token that tokenize appends is 1    *)
(* plus the number of newline characters before the first character of     *)
(* the token, and the column recorded is 1 plus the number of characters   *)
(* between the preceding newline (or the start of the input) and that      *)
(* first character.                                                        *)
(***************************************************************************)
\* the line of position i of the text s: 1 plus the newlines before it
LineOf(s, i) == 1 + Cardinality({ j \in 1..(i - 1) : s[j] = "\n" })

\* the column of position i of the text s: 1 plus the characters between
\* the last newline before it (or the start) and it
ColumnOf(s, i) ==
    IF \E j \in 1..(i - 1) : s[j] = "\n"
    THEN i - (CHOOSE j \in 1..(i - 1) : s[j] = "\n" /\ \A k \in (j + 1)..(i - 1) : s[k] /= "\n")
    ELSE i

HasBlockComment(s) == Contains(s, Chars("/*"))

C21_Positions ==
    [][(pc = "tokenize" /\ pc' = "tokenize" /\ Len(tokens') > Len(tokens)
            /\ ~HasBlockComment(code))
        => /\ tokens'[Len(tokens')].line = LineOf(code, MatchStart(code, scan))
           /\ tokens'[Len(tokens')].column = ColumnOf(code, MatchStart(code, scan))]_vars

(***************************************************************************)
(* C22  At the top level, a token that starts none of the statement forms  *)
(* (pin declaration, function declaration, loop block, serial              *)
(* initialization, variable declaration introduced by a type keyword,      *)
(* identifier followed by the assignment operator, recognized call name)   *)
(* is advanced past: the iteration of Parser.parse moves the position by   *)
(* one token, raises nothing and adds no node to the Program.              *)
(***************************************************************************)
\* the token tok is a type keyword of the source text (and not a literal of
\* the token kind of the same name)
IsTypeKeyword(tok) ==
    /\ tok.type \in {"INT", "FLOAT", "BOOL", "CHAR", "STRING"}
    /\ IsStr(tok.value)
    /\ tok.value.s \in DOMAIN KEYWORDS
    /\ KEYWORDS[tok.value.s] = tok.type

\* the current token starts one of the statement forms of the top level
StartsStatement(toks, st) ==
    \/ current_token(toks, st).type \in {"PIN", "FUNCTION", "LOOP", "SERIAL_BEGIN"}
    \/ IsTypeKeyword(current_token(toks, st))
    \/ current_token(toks, st).type = "ID" /\ peek(toks, st).type = "ASSIGN"
    \/ current_token(toks, st).type
            \in {"DIGITALWRITE", "ANALOGWRITE", "DELAY", "PRINT", "PRINTLN"}

C22_SkipsUnrecognized ==
    [][(pc = "parse" /\ current_token(tokens, ParserState).type \notin {"None", "EOF"}
            /\ ~StartsStatement(tokens, ParserState))
        => (pc' = "parse" /\ pos' = pos + 1 /\ children' = children)]_vars

(***************************************************************************)
(* C23  parse terminates on every token sequence that ends with the end    *)
(* marker: it returns a Program or raises, and never enters a loop that    *)
(* does not end; its token position never decreases; and when it has       *)
(* returned every token before the end marker has been consumed.           *)
(***************************************************************************)
C23_ParseTerminates ==
    /\ [](pc /= "hang")
    /\ [][pos' >= pos]_vars
    /\ [](pc = "generate_header" =>
            current_token(tokens, ParserState).type \in {"None", "EOF"})

(***************************************************************************)
(* C24  During one parse a symbol-table entry is created once, at the      *)
(* first declaration of its name, and is never removed or replaced: every  *)
(* step of parse leaves the entries that the table holds as they are, in   *)
(* their order, and only adds entries after them.                          *)
(***************************************************************************)
C24_SymbolsWriteOnce ==
    [][/\ Len(symbols') >= Len(symbols)
       /\ \A i \in 1..Len(symbols) : symbols'[i] = symbols[i]]_vars

(***************************************************************************)
(* C25  Statements nested in a control statement (conditional, while, for) *)
(* inside the loop block are emitted one indentation level, two spaces,    *)
(* deeper than the statements of the enclosing block, for every nesting    *)
(* depth, and the level returns to that of the enclosing block after the   *)
(* nested block: the call delay(n) that is nested d control statements     *)
(* deep in the loop block is the line delay(n); of void loop() at level    *)
(* 1 + d.                                                                  *)
(***************************************************************************)
C25_NestedIndentation ==
    \A c \in NestedCases :
        (code = c.text /\ Final) =>
            /\ pc = "done"
            /\ \A n \in 1..3 :
                  HasLine(LoopBody, Indent(1 + c.depth[n]) \o Chars("delay(")
                                        \o FormatInt(n) \o Chars(");"))

(***************************************************************************)
(* C30  Block terminators are matched to the innermost open block: for a   *)
(* loop block whose body contains conditional, while or for blocks, each   *)
(* closed by its own end keyword, every recognized statement that precedes *)
(* the closing end keyword of the loop block is in the subtree of the Loop *)
(* node, and none is a top-level statement of the Program: the Program has *)
(* the Loop node as its only child, and the three delay calls are below it.*)
(***************************************************************************)
C30_InnermostBlock ==
    (code \in NestedTexts /\ ast.cls = "ProgramNode") =>
        /\ Len(ast.children) = 1
        /\ ast.children[1].cls = "LoopNode"
        /\ Len(NodesOf(ast.children[1].children, "DelayNode")) = 3

(***************************************************************************)
(* C26  A string-typed value is emitted enclosed in double quotes exactly  *)
(* once: for every string literal s, the print call of "s" emits           *)
(* Serial.print("s");, the print-line call emits Serial.println("s");, and *)
(* the declaration of a string variable with the initial value "s" emits   *)
(* String <name> = "s";, also when s spells a logic-level word or a pin    *)
(* alias.                                                                  *)
(***************************************************************************)
C26_StringsQuoted ==
    \A t \in StringContents :
        /\ (code = PrintStmt(Cyr("pexat6"), t) /\ Final) =>
              /\ pc = "done"
              /\ HasLine(output, Statement(Chars("Serial.print(") \o Quoted(t) \o Chars(");")))
        /\ (code = PrintStmt(Cyr("pexat6_stroka"), t) /\ Final) =>
              /\ pc = "done"
              /\ HasLine(output, Statement(Chars("Serial.println(") \o Quoted(t) \o Chars(");")))
        /\ (code = StringVarStmt(t) /\ Final) =>
              /\ pc = "done"
              /\ HasLine(output, Statement(Chars("String s = ") \o Quoted(t) \o <<";">>))

(***************************************************************************)
(* C27  A pin declaration emits exactly one pinMode call for its pin,      *)
(* followed immediately by one digitalWrite call for that pin with the     *)
(* given initial level if and only if an initial level or value was given  *)
(* and the mode is output; for the input modes no write call is emitted    *)
(* even when an initial value is given.                                    *)
(***************************************************************************)
PinModeLine(m) == Statement(Chars("pinMode(13, ") \o m.constant \o Chars(");"))
PinWriteLine(v) == Statement(Chars("digitalWrite(13, ") \o v.written \o Chars(");"))

C27_PinDeclaration ==
    \A m \in PinModes :
        /\ (code = PinStmt(Chars("13"), m.text) /\ Final) =>
              pc = "done" /\ SetupBody = << PinModeLine(m) >>
        /\ \A v \in InitialValues :
              (code = PinInitStmt(Chars("13"), m.text, v.text) /\ Final) =>
                  /\ pc = "done"
                  /\ SetupBody = IF m.constant = Chars("OUTPUT")
                                 THEN << PinModeLine(m), PinWriteLine(v) >>
                                 ELSE << PinModeLine(m) >>

(***************************************************************************)
(* C28  Statements of the loop block are emitted only in the repeating     *)
(* routine: no statement translated from the body of a top-level loop      *)
(* block appears inside void setup().  For a program whose top-level       *)
(* statements are all loop blocks the body of void setup() is empty.       *)
(***************************************************************************)
C28_LoopNotInSetup ==
    (/\ pc = "done"
     /\ ast.children /= <<>>
     /\ \A i \in 1..Len(ast.children) : ast.children[i].cls = "LoopNode") =>
        SetupBody = <<>>

(***************************************************************************)
(* C29  After any sequence of compile calls on one ArduinoScriptCompiler,  *)
(* some of which may raise, the stored ast and the stored cpp_code belong  *)
(* to the same input: between two calls, a compiler object that holds a    *)
(* text holds the text that generate gives for the tree it holds.          *)
(***************************************************************************)
\* the generator after generate() on the tree
Generate(tree) ==
    generate_loop(generate_setup(generate_header(GeneratorInit), tree), tree)

\* the text is the text that generate() returns for the tree
GeneratedFrom(text, tree) ==
    /\ tree.cls = "ProgramNode"
    /\ Ok(Generate(tree))
    /\ text = Join(<<"\n">>, Generate(tree).output)

C29_AstMatchesText ==
    \A i \in DOMAIN compilers :
        (/\ calls > 0
         /\ threads[i].pc \in {"done", "raised"}
         /\ compilers[i].cpp_code /= NewCompiler.cpp_code) =>
            GeneratedFrom(compilers[i].cpp_code, compilers[i].ast)

=============================================================================
